---- MODULE Spec2Model ----
(***************************************************************************)
(* Model of dooray_wiki_backup.py: the page counter, the recursive backup  *)
(* traversal of WikiBackupManager, the inline-image rewriter and the       *)
(* attachment processor.  Strings are sequences of one-character strings;   *)
(* the double quote, the backquote and every character that is not         *)
(* printable ASCII, tab, line feed, form feed or carriage return is        *)
(* written as the name of its code point, "U+D55C" for the Hangul          *)
(* syllable of that code point.                                            *)
(***************************************************************************)
EXTENDS Integers, Sequences, FiniteSets, TLC

\* ------------------------------------------------------------------ bounds
MaxPages == 4       \* pages of the remote wiki
MaxQuota == 3       \* largest finite page_limit
MaxFailAt == 9      \* latest fatal operation (API call or file write) that may fail
MaxFrags == 2       \* pieces a page body is put together from
MaxFiles == 2       \* attachment descriptors of a page
MaxTitle == 2       \* characters of a page subject given to _create_numbered_dir
MainPages == 2      \* pages of the wiki of a project main() backs up
MainFailAt == 5     \* latest fatal operation that may fail in a run started by main()
MaxElapsed == 1     \* most seconds the clock advances during one backup() under main()
TermPages == 4      \* most pages of a wiki whose listing may loop
TermQuota == 2      \* largest finite page_limit of a run on such a wiki
TermFailAt == 3     \* latest fatal operation that may fail in such a run
MaxDepth == 6       \* cap of the nesting of backup_recursive frames

\* -------------------------------------------------------- program constants
Unlimited == -1     \* page_limit value that disables the quota
PollLimit == 10     \* for _ in range(10): listings of the download folder per request

\* ----------------------------------------------------------------- strings
\* the decimal digits: what \d of a str pattern matches (the characters of
\* Unicode category Nd)
Digits ==
    {"0", "1", "2", "3", "4", "5", "6", "7", "8", "9", "U+0660", "U+0661", "U+0662", "U+0663",
     "U+0664", "U+0665", "U+0666", "U+0667", "U+0668", "U+0669", "U+06F0", "U+06F1", "U+06F2",
     "U+06F3", "U+06F4", "U+06F5", "U+06F6", "U+06F7", "U+06F8", "U+06F9", "U+07C0", "U+07C1",
     "U+07C2", "U+07C3", "U+07C4", "U+07C5", "U+07C6", "U+07C7", "U+07C8", "U+07C9", "U+0966",
     "U+0967", "U+0968", "U+0969", "U+096A", "U+096B", "U+096C", "U+096D", "U+096E", "U+096F",
     "U+09E6", "U+09E7", "U+09E8", "U+09E9", "U+09EA", "U+09EB", "U+09EC", "U+09ED", "U+09EE",
     "U+09EF", "U+0A66", "U+0A67", "U+0A68", "U+0A69", "U+0A6A", "U+0A6B", "U+0A6C", "U+0A6D",
     "U+0A6E", "U+0A6F", "U+0AE6", "U+0AE7", "U+0AE8", "U+0AE9", "U+0AEA", "U+0AEB", "U+0AEC",
     "U+0AED", "U+0AEE", "U+0AEF", "U+0B66", "U+0B67", "U+0B68", "U+0B69", "U+0B6A", "U+0B6B",
     "U+0B6C", "U+0B6D", "U+0B6E", "U+0B6F", "U+0BE6", "U+0BE7", "U+0BE8", "U+0BE9", "U+0BEA",
     "U+0BEB", "U+0BEC", "U+0BED", "U+0BEE", "U+0BEF", "U+0C66", "U+0C67", "U+0C68", "U+0C69",
     "U+0C6A", "U+0C6B", "U+0C6C", "U+0C6D", "U+0C6E", "U+0C6F", "U+0CE6", "U+0CE7", "U+0CE8",
     "U+0CE9", "U+0CEA", "U+0CEB", "U+0CEC", "U+0CED", "U+0CEE", "U+0CEF", "U+0D66", "U+0D67",
     "U+0D68", "U+0D69", "U+0D6A", "U+0D6B", "U+0D6C", "U+0D6D", "U+0D6E", "U+0D6F", "U+0DE6",
     "U+0DE7", "U+0DE8", "U+0DE9", "U+0DEA", "U+0DEB", "U+0DEC", "U+0DED", "U+0DEE", "U+0DEF",
     "U+0E50", "U+0E51", "U+0E52", "U+0E53", "U+0E54", "U+0E55", "U+0E56", "U+0E57", "U+0E58",
     "U+0E59", "U+0ED0", "U+0ED1", "U+0ED2", "U+0ED3", "U+0ED4", "U+0ED5", "U+0ED6", "U+0ED7",
     "U+0ED8", "U+0ED9", "U+0F20", "U+0F21", "U+0F22", "U+0F23", "U+0F24", "U+0F25", "U+0F26",
     "U+0F27", "U+0F28", "U+0F29", "U+1040", "U+1041", "U+1042", "U+1043", "U+1044", "U+1045",
     "U+1046", "U+1047", "U+1048", "U+1049", "U+1090", "U+1091", "U+1092", "U+1093", "U+1094",
     "U+1095", "U+1096", "U+1097", "U+1098", "U+1099", "U+17E0", "U+17E1", "U+17E2", "U+17E3",
     "U+17E4", "U+17E5", "U+17E6", "U+17E7", "U+17E8", "U+17E9", "U+1810", "U+1811", "U+1812",
     "U+1813", "U+1814", "U+1815", "U+1816", "U+1817", "U+1818", "U+1819", "U+1946", "U+1947",
     "U+1948", "U+1949", "U+194A", "U+194B", "U+194C", "U+194D", "U+194E", "U+194F", "U+19D0",
     "U+19D1", "U+19D2", "U+19D3", "U+19D4", "U+19D5", "U+19D6", "U+19D7", "U+19D8", "U+19D9",
     "U+1A80", "U+1A81", "U+1A82", "U+1A83", "U+1A84", "U+1A85", "U+1A86", "U+1A87", "U+1A88",
     "U+1A89", "U+1A90", "U+1A91", "U+1A92", "U+1A93", "U+1A94", "U+1A95", "U+1A96", "U+1A97",
     "U+1A98", "U+1A99", "U+1B50", "U+1B51", "U+1B52", "U+1B53", "U+1B54", "U+1B55", "U+1B56",
     "U+1B57", "U+1B58", "U+1B59", "U+1BB0", "U+1BB1", "U+1BB2", "U+1BB3", "U+1BB4", "U+1BB5",
     "U+1BB6", "U+1BB7", "U+1BB8", "U+1BB9", "U+1C40", "U+1C41", "U+1C42", "U+1C43", "U+1C44",
     "U+1C45", "U+1C46", "U+1C47", "U+1C48", "U+1C49", "U+1C50", "U+1C51", "U+1C52", "U+1C53",
     "U+1C54", "U+1C55", "U+1C56", "U+1C57", "U+1C58", "U+1C59", "U+A620", "U+A621", "U+A622",
     "U+A623", "U+A624", "U+A625", "U+A626", "U+A627", "U+A628", "U+A629", "U+A8D0", "U+A8D1",
     "U+A8D2", "U+A8D3", "U+A8D4", "U+A8D5", "U+A8D6", "U+A8D7", "U+A8D8", "U+A8D9", "U+A900",
     "U+A901", "U+A902", "U+A903", "U+A904", "U+A905", "U+A906", "U+A907", "U+A908", "U+A909",
     "U+A9D0", "U+A9D1", "U+A9D2", "U+A9D3", "U+A9D4", "U+A9D5", "U+A9D6", "U+A9D7", "U+A9D8",
     "U+A9D9", "U+A9F0", "U+A9F1", "U+A9F2", "U+A9F3", "U+A9F4", "U+A9F5", "U+A9F6", "U+A9F7",
     "U+A9F8", "U+A9F9", "U+AA50", "U+AA51", "U+AA52", "U+AA53", "U+AA54", "U+AA55", "U+AA56",
     "U+AA57", "U+AA58", "U+AA59", "U+ABF0", "U+ABF1", "U+ABF2", "U+ABF3", "U+ABF4", "U+ABF5",
     "U+ABF6", "U+ABF7", "U+ABF8", "U+ABF9", "U+FF10", "U+FF11", "U+FF12", "U+FF13", "U+FF14",
     "U+FF15", "U+FF16", "U+FF17", "U+FF18", "U+FF19", "U+104A0", "U+104A1", "U+104A2",
     "U+104A3", "U+104A4", "U+104A5", "U+104A6", "U+104A7", "U+104A8", "U+104A9", "U+10D30",
     "U+10D31", "U+10D32", "U+10D33", "U+10D34", "U+10D35", "U+10D36", "U+10D37", "U+10D38",
     "U+10D39", "U+11066", "U+11067", "U+11068", "U+11069", "U+1106A", "U+1106B", "U+1106C",
     "U+1106D", "U+1106E", "U+1106F", "U+110F0", "U+110F1", "U+110F2", "U+110F3", "U+110F4",
     "U+110F5", "U+110F6", "U+110F7", "U+110F8", "U+110F9", "U+11136", "U+11137", "U+11138",
     "U+11139", "U+1113A", "U+1113B", "U+1113C", "U+1113D", "U+1113E", "U+1113F", "U+111D0",
     "U+111D1", "U+111D2", "U+111D3", "U+111D4", "U+111D5", "U+111D6", "U+111D7", "U+111D8",
     "U+111D9", "U+112F0", "U+112F1", "U+112F2", "U+112F3", "U+112F4", "U+112F5", "U+112F6",
     "U+112F7", "U+112F8", "U+112F9", "U+11450", "U+11451", "U+11452", "U+11453", "U+11454",
     "U+11455", "U+11456", "U+11457", "U+11458", "U+11459", "U+114D0", "U+114D1", "U+114D2",
     "U+114D3", "U+114D4", "U+114D5", "U+114D6", "U+114D7", "U+114D8", "U+114D9", "U+11650",
     "U+11651", "U+11652", "U+11653", "U+11654", "U+11655", "U+11656", "U+11657", "U+11658",
     "U+11659", "U+116C0", "U+116C1", "U+116C2", "U+116C3", "U+116C4", "U+116C5", "U+116C6",
     "U+116C7", "U+116C8", "U+116C9", "U+11730", "U+11731", "U+11732", "U+11733", "U+11734",
     "U+11735", "U+11736", "U+11737", "U+11738", "U+11739", "U+118E0", "U+118E1", "U+118E2",
     "U+118E3", "U+118E4", "U+118E5", "U+118E6", "U+118E7", "U+118E8", "U+118E9", "U+11950",
     "U+11951", "U+11952", "U+11953", "U+11954", "U+11955", "U+11956", "U+11957", "U+11958",
     "U+11959", "U+11C50", "U+11C51", "U+11C52", "U+11C53", "U+11C54", "U+11C55", "U+11C56",
     "U+11C57", "U+11C58", "U+11C59", "U+11D50", "U+11D51", "U+11D52", "U+11D53", "U+11D54",
     "U+11D55", "U+11D56", "U+11D57", "U+11D58", "U+11D59", "U+11DA0", "U+11DA1", "U+11DA2",
     "U+11DA3", "U+11DA4", "U+11DA5", "U+11DA6", "U+11DA7", "U+11DA8", "U+11DA9", "U+16A60",
     "U+16A61", "U+16A62", "U+16A63", "U+16A64", "U+16A65", "U+16A66", "U+16A67", "U+16A68",
     "U+16A69", "U+16AC0", "U+16AC1", "U+16AC2", "U+16AC3", "U+16AC4", "U+16AC5", "U+16AC6",
     "U+16AC7", "U+16AC8", "U+16AC9", "U+16B50", "U+16B51", "U+16B52", "U+16B53", "U+16B54",
     "U+16B55", "U+16B56", "U+16B57", "U+16B58", "U+16B59", "U+1D7CE", "U+1D7CF", "U+1D7D0",
     "U+1D7D1", "U+1D7D2", "U+1D7D3", "U+1D7D4", "U+1D7D5", "U+1D7D6", "U+1D7D7", "U+1D7D8",
     "U+1D7D9", "U+1D7DA", "U+1D7DB", "U+1D7DC", "U+1D7DD", "U+1D7DE", "U+1D7DF", "U+1D7E0",
     "U+1D7E1", "U+1D7E2", "U+1D7E3", "U+1D7E4", "U+1D7E5", "U+1D7E6", "U+1D7E7", "U+1D7E8",
     "U+1D7E9", "U+1D7EA", "U+1D7EB", "U+1D7EC", "U+1D7ED", "U+1D7EE", "U+1D7EF", "U+1D7F0",
     "U+1D7F1", "U+1D7F2", "U+1D7F3", "U+1D7F4", "U+1D7F5", "U+1D7F6", "U+1D7F7", "U+1D7F8",
     "U+1D7F9", "U+1D7FA", "U+1D7FB", "U+1D7FC", "U+1D7FD", "U+1D7FE", "U+1D7FF", "U+1E140",
     "U+1E141", "U+1E142", "U+1E143", "U+1E144", "U+1E145", "U+1E146", "U+1E147", "U+1E148",
     "U+1E149", "U+1E2F0", "U+1E2F1", "U+1E2F2", "U+1E2F3", "U+1E2F4", "U+1E2F5", "U+1E2F6",
     "U+1E2F7", "U+1E2F8", "U+1E2F9", "U+1E950", "U+1E951", "U+1E952", "U+1E953", "U+1E954",
     "U+1E955", "U+1E956", "U+1E957", "U+1E958", "U+1E959", "U+1FBF0", "U+1FBF1", "U+1FBF2",
     "U+1FBF3", "U+1FBF4", "U+1FBF5", "U+1FBF6", "U+1FBF7", "U+1FBF8", "U+1FBF9"}

RECURSIVE Hex(_, _)
\* the w hexadecimal digits of n
Hex(n, w) ==
    IF w = 0 THEN ""
    ELSE Hex(n \div 16, w - 1)
         \o <<"0", "1", "2", "3", "4", "5", "6", "7", "8", "9", "A", "B", "C", "D", "E", "F">>[(n % 16) + 1]

\* chr(n): the character of code point n as the model writes it (U+0020 to
\* U+007E from the table)
Chr(n) ==
    IF n >= 32 /\ n <= 126
    THEN (
        <<" ", "!", "U+0022", "#", "$", "%", "&", "'", "(", ")", "*", "+", ",", "-", ".", "/", "0",
          "1", "2", "3", "4", "5", "6", "7", "8", "9", ":", ";", "<", "=", ">", "?", "@", "A", "B",
          "C", "D", "E", "F", "G", "H", "I", "J", "K", "L", "M", "N", "O", "P", "Q", "R", "S", "T",
          "U", "V", "W", "X", "Y", "Z", "[", "\\", "]", "^", "_", "U+0060", "a", "b", "c", "d",
          "e", "f", "g", "h", "i", "j", "k", "l", "m", "n", "o", "p", "q", "r", "s", "t", "u", "v",
          "w", "x", "y", "z", "{", "|", "}", "~">>)[n - 31]
    ELSE IF n = 9 THEN "\t"
    ELSE IF n = 10 THEN "\n"
    ELSE IF n = 12 THEN "\f"
    ELSE IF n = 13 THEN "\r"
    ELSE "U+" \o (IF n < 65536 THEN Hex(n, 4) ELSE IF n < 1048576 THEN Hex(n, 5) ELSE Hex(n, 6))

\* the code points str.isalnum() is true of, as ranges first..last (Unicode 14.0.0);
\* it is false of every other code point, the unassigned ones, the private-use
\* ones and the surrogates included
AlnumRanges ==
    {<<48, 57>>, <<65, 90>>, <<97, 122>>, <<170, 170>>, <<178, 179>>, <<181, 181>>,
     <<185, 186>>, <<188, 190>>, <<192, 214>>, <<216, 246>>, <<248, 705>>, <<710, 721>>,
     <<736, 740>>, <<748, 748>>, <<750, 750>>, <<880, 884>>, <<886, 887>>, <<890, 893>>,
     <<895, 895>>, <<902, 902>>, <<904, 906>>, <<908, 908>>, <<910, 929>>, <<931, 1013>>,
     <<1015, 1153>>, <<1162, 1327>>, <<1329, 1366>>, <<1369, 1369>>, <<1376, 1416>>,
     <<1488, 1514>>, <<1519, 1522>>, <<1568, 1610>>, <<1632, 1641>>, <<1646, 1647>>,
     <<1649, 1747>>, <<1749, 1749>>, <<1765, 1766>>, <<1774, 1788>>, <<1791, 1791>>,
     <<1808, 1808>>, <<1810, 1839>>, <<1869, 1957>>, <<1969, 1969>>, <<1984, 2026>>,
     <<2036, 2037>>, <<2042, 2042>>, <<2048, 2069>>, <<2074, 2074>>, <<2084, 2084>>,
     <<2088, 2088>>, <<2112, 2136>>, <<2144, 2154>>, <<2160, 2183>>, <<2185, 2190>>,
     <<2208, 2249>>, <<2308, 2361>>, <<2365, 2365>>, <<2384, 2384>>, <<2392, 2401>>,
     <<2406, 2415>>, <<2417, 2432>>, <<2437, 2444>>, <<2447, 2448>>, <<2451, 2472>>,
     <<2474, 2480>>, <<2482, 2482>>, <<2486, 2489>>, <<2493, 2493>>, <<2510, 2510>>,
     <<2524, 2525>>, <<2527, 2529>>, <<2534, 2545>>, <<2548, 2553>>, <<2556, 2556>>,
     <<2565, 2570>>, <<2575, 2576>>, <<2579, 2600>>, <<2602, 2608>>, <<2610, 2611>>,
     <<2613, 2614>>, <<2616, 2617>>, <<2649, 2652>>, <<2654, 2654>>, <<2662, 2671>>,
     <<2674, 2676>>, <<2693, 2701>>, <<2703, 2705>>, <<2707, 2728>>, <<2730, 2736>>,
     <<2738, 2739>>, <<2741, 2745>>, <<2749, 2749>>, <<2768, 2768>>, <<2784, 2785>>,
     <<2790, 2799>>, <<2809, 2809>>, <<2821, 2828>>, <<2831, 2832>>, <<2835, 2856>>,
     <<2858, 2864>>, <<2866, 2867>>, <<2869, 2873>>, <<2877, 2877>>, <<2908, 2909>>,
     <<2911, 2913>>, <<2918, 2927>>, <<2929, 2935>>, <<2947, 2947>>, <<2949, 2954>>,
     <<2958, 2960>>, <<2962, 2965>>, <<2969, 2970>>, <<2972, 2972>>, <<2974, 2975>>,
     <<2979, 2980>>, <<2984, 2986>>, <<2990, 3001>>, <<3024, 3024>>, <<3046, 3058>>,
     <<3077, 3084>>, <<3086, 3088>>, <<3090, 3112>>, <<3114, 3129>>, <<3133, 3133>>,
     <<3160, 3162>>, <<3165, 3165>>, <<3168, 3169>>, <<3174, 3183>>, <<3192, 3198>>,
     <<3200, 3200>>, <<3205, 3212>>, <<3214, 3216>>, <<3218, 3240>>, <<3242, 3251>>,
     <<3253, 3257>>, <<3261, 3261>>, <<3293, 3294>>, <<3296, 3297>>, <<3302, 3311>>,
     <<3313, 3314>>, <<3332, 3340>>, <<3342, 3344>>, <<3346, 3386>>, <<3389, 3389>>,
     <<3406, 3406>>, <<3412, 3414>>, <<3416, 3425>>, <<3430, 3448>>, <<3450, 3455>>,
     <<3461, 3478>>, <<3482, 3505>>, <<3507, 3515>>, <<3517, 3517>>, <<3520, 3526>>,
     <<3558, 3567>>, <<3585, 3632>>, <<3634, 3635>>, <<3648, 3654>>, <<3664, 3673>>,
     <<3713, 3714>>, <<3716, 3716>>, <<3718, 3722>>, <<3724, 3747>>, <<3749, 3749>>,
     <<3751, 3760>>, <<3762, 3763>>, <<3773, 3773>>, <<3776, 3780>>, <<3782, 3782>>,
     <<3792, 3801>>, <<3804, 3807>>, <<3840, 3840>>, <<3872, 3891>>, <<3904, 3911>>,
     <<3913, 3948>>, <<3976, 3980>>, <<4096, 4138>>, <<4159, 4169>>, <<4176, 4181>>,
     <<4186, 4189>>, <<4193, 4193>>, <<4197, 4198>>, <<4206, 4208>>, <<4213, 4225>>,
     <<4238, 4238>>, <<4240, 4249>>, <<4256, 4293>>, <<4295, 4295>>, <<4301, 4301>>,
     <<4304, 4346>>, <<4348, 4680>>, <<4682, 4685>>, <<4688, 4694>>, <<4696, 4696>>,
     <<4698, 4701>>, <<4704, 4744>>, <<4746, 4749>>, <<4752, 4784>>, <<4786, 4789>>,
     <<4792, 4798>>, <<4800, 4800>>, <<4802, 4805>>, <<4808, 4822>>, <<4824, 4880>>,
     <<4882, 4885>>, <<4888, 4954>>, <<4969, 4988>>, <<4992, 5007>>, <<5024, 5109>>,
     <<5112, 5117>>, <<5121, 5740>>, <<5743, 5759>>, <<5761, 5786>>, <<5792, 5866>>,
     <<5870, 5880>>, <<5888, 5905>>, <<5919, 5937>>, <<5952, 5969>>, <<5984, 5996>>,
     <<5998, 6000>>, <<6016, 6067>>, <<6103, 6103>>, <<6108, 6108>>, <<6112, 6121>>,
     <<6128, 6137>>, <<6160, 6169>>, <<6176, 6264>>, <<6272, 6276>>, <<6279, 6312>>,
     <<6314, 6314>>, <<6320, 6389>>, <<6400, 6430>>, <<6470, 6509>>, <<6512, 6516>>,
     <<6528, 6571>>, <<6576, 6601>>, <<6608, 6618>>, <<6656, 6678>>, <<6688, 6740>>,
     <<6784, 6793>>, <<6800, 6809>>, <<6823, 6823>>, <<6917, 6963>>, <<6981, 6988>>,
     <<6992, 7001>>, <<7043, 7072>>, <<7086, 7141>>, <<7168, 7203>>, <<7232, 7241>>,
     <<7245, 7293>>, <<7296, 7304>>, <<7312, 7354>>, <<7357, 7359>>, <<7401, 7404>>,
     <<7406, 7411>>, <<7413, 7414>>, <<7418, 7418>>, <<7424, 7615>>, <<7680, 7957>>,
     <<7960, 7965>>, <<7968, 8005>>, <<8008, 8013>>, <<8016, 8023>>, <<8025, 8025>>,
     <<8027, 8027>>, <<8029, 8029>>, <<8031, 8061>>, <<8064, 8116>>, <<8118, 8124>>,
     <<8126, 8126>>, <<8130, 8132>>, <<8134, 8140>>, <<8144, 8147>>, <<8150, 8155>>,
     <<8160, 8172>>, <<8178, 8180>>, <<8182, 8188>>, <<8304, 8305>>, <<8308, 8313>>,
     <<8319, 8329>>, <<8336, 8348>>, <<8450, 8450>>, <<8455, 8455>>, <<8458, 8467>>,
     <<8469, 8469>>, <<8473, 8477>>, <<8484, 8484>>, <<8486, 8486>>, <<8488, 8488>>,
     <<8490, 8493>>, <<8495, 8505>>, <<8508, 8511>>, <<8517, 8521>>, <<8526, 8526>>,
     <<8528, 8585>>, <<9312, 9371>>, <<9450, 9471>>, <<10102, 10131>>, <<11264, 11492>>,
     <<11499, 11502>>, <<11506, 11507>>, <<11517, 11517>>, <<11520, 11557>>, <<11559, 11559>>,
     <<11565, 11565>>, <<11568, 11623>>, <<11631, 11631>>, <<11648, 11670>>, <<11680, 11686>>,
     <<11688, 11694>>, <<11696, 11702>>, <<11704, 11710>>, <<11712, 11718>>, <<11720, 11726>>,
     <<11728, 11734>>, <<11736, 11742>>, <<11823, 11823>>, <<12293, 12295>>, <<12321, 12329>>,
     <<12337, 12341>>, <<12344, 12348>>, <<12353, 12438>>, <<12445, 12447>>, <<12449, 12538>>,
     <<12540, 12543>>, <<12549, 12591>>, <<12593, 12686>>, <<12690, 12693>>, <<12704, 12735>>,
     <<12784, 12799>>, <<12832, 12841>>, <<12872, 12879>>, <<12881, 12895>>, <<12928, 12937>>,
     <<12977, 12991>>, <<13312, 19903>>, <<19968, 42124>>, <<42192, 42237>>, <<42240, 42508>>,
     <<42512, 42539>>, <<42560, 42606>>, <<42623, 42653>>, <<42656, 42735>>, <<42775, 42783>>,
     <<42786, 42888>>, <<42891, 42954>>, <<42960, 42961>>, <<42963, 42963>>, <<42965, 42969>>,
     <<42994, 43009>>, <<43011, 43013>>, <<43015, 43018>>, <<43020, 43042>>, <<43056, 43061>>,
     <<43072, 43123>>, <<43138, 43187>>, <<43216, 43225>>, <<43250, 43255>>, <<43259, 43259>>,
     <<43261, 43262>>, <<43264, 43301>>, <<43312, 43334>>, <<43360, 43388>>, <<43396, 43442>>,
     <<43471, 43481>>, <<43488, 43492>>, <<43494, 43518>>, <<43520, 43560>>, <<43584, 43586>>,
     <<43588, 43595>>, <<43600, 43609>>, <<43616, 43638>>, <<43642, 43642>>, <<43646, 43695>>,
     <<43697, 43697>>, <<43701, 43702>>, <<43705, 43709>>, <<43712, 43712>>, <<43714, 43714>>,
     <<43739, 43741>>, <<43744, 43754>>, <<43762, 43764>>, <<43777, 43782>>, <<43785, 43790>>,
     <<43793, 43798>>, <<43808, 43814>>, <<43816, 43822>>, <<43824, 43866>>, <<43868, 43881>>,
     <<43888, 44002>>, <<44016, 44025>>, <<44032, 55203>>, <<55216, 55238>>, <<55243, 55291>>,
     <<63744, 64109>>, <<64112, 64217>>, <<64256, 64262>>, <<64275, 64279>>, <<64285, 64285>>,
     <<64287, 64296>>, <<64298, 64310>>, <<64312, 64316>>, <<64318, 64318>>, <<64320, 64321>>,
     <<64323, 64324>>, <<64326, 64433>>, <<64467, 64829>>, <<64848, 64911>>, <<64914, 64967>>,
     <<65008, 65019>>, <<65136, 65140>>, <<65142, 65276>>, <<65296, 65305>>, <<65313, 65338>>,
     <<65345, 65370>>, <<65382, 65470>>, <<65474, 65479>>, <<65482, 65487>>, <<65490, 65495>>,
     <<65498, 65500>>, <<65536, 65547>>, <<65549, 65574>>, <<65576, 65594>>, <<65596, 65597>>,
     <<65599, 65613>>, <<65616, 65629>>, <<65664, 65786>>, <<65799, 65843>>, <<65856, 65912>>,
     <<65930, 65931>>, <<66176, 66204>>, <<66208, 66256>>, <<66273, 66299>>, <<66304, 66339>>,
     <<66349, 66378>>, <<66384, 66421>>, <<66432, 66461>>, <<66464, 66499>>, <<66504, 66511>>,
     <<66513, 66517>>, <<66560, 66717>>, <<66720, 66729>>, <<66736, 66771>>, <<66776, 66811>>,
     <<66816, 66855>>, <<66864, 66915>>, <<66928, 66938>>, <<66940, 66954>>, <<66956, 66962>>,
     <<66964, 66965>>, <<66967, 66977>>, <<66979, 66993>>, <<66995, 67001>>, <<67003, 67004>>,
     <<67072, 67382>>, <<67392, 67413>>, <<67424, 67431>>, <<67456, 67461>>, <<67463, 67504>>,
     <<67506, 67514>>, <<67584, 67589>>, <<67592, 67592>>, <<67594, 67637>>, <<67639, 67640>>,
     <<67644, 67644>>, <<67647, 67669>>, <<67672, 67702>>, <<67705, 67742>>, <<67751, 67759>>,
     <<67808, 67826>>, <<67828, 67829>>, <<67835, 67867>>, <<67872, 67897>>, <<67968, 68023>>,
     <<68028, 68047>>, <<68050, 68096>>, <<68112, 68115>>, <<68117, 68119>>, <<68121, 68149>>,
     <<68160, 68168>>, <<68192, 68222>>, <<68224, 68255>>, <<68288, 68295>>, <<68297, 68324>>,
     <<68331, 68335>>, <<68352, 68405>>, <<68416, 68437>>, <<68440, 68466>>, <<68472, 68497>>,
     <<68521, 68527>>, <<68608, 68680>>, <<68736, 68786>>, <<68800, 68850>>, <<68858, 68899>>,
     <<68912, 68921>>, <<69216, 69246>>, <<69248, 69289>>, <<69296, 69297>>, <<69376, 69415>>,
     <<69424, 69445>>, <<69457, 69460>>, <<69488, 69505>>, <<69552, 69579>>, <<69600, 69622>>,
     <<69635, 69687>>, <<69714, 69743>>, <<69745, 69746>>, <<69749, 69749>>, <<69763, 69807>>,
     <<69840, 69864>>, <<69872, 69881>>, <<69891, 69926>>, <<69942, 69951>>, <<69956, 69956>>,
     <<69959, 69959>>, <<69968, 70002>>, <<70006, 70006>>, <<70019, 70066>>, <<70081, 70084>>,
     <<70096, 70106>>, <<70108, 70108>>, <<70113, 70132>>, <<70144, 70161>>, <<70163, 70187>>,
     <<70272, 70278>>, <<70280, 70280>>, <<70282, 70285>>, <<70287, 70301>>, <<70303, 70312>>,
     <<70320, 70366>>, <<70384, 70393>>, <<70405, 70412>>, <<70415, 70416>>, <<70419, 70440>>,
     <<70442, 70448>>, <<70450, 70451>>, <<70453, 70457>>, <<70461, 70461>>, <<70480, 70480>>,
     <<70493, 70497>>, <<70656, 70708>>, <<70727, 70730>>, <<70736, 70745>>, <<70751, 70753>>,
     <<70784, 70831>>, <<70852, 70853>>, <<70855, 70855>>, <<70864, 70873>>, <<71040, 71086>>,
     <<71128, 71131>>, <<71168, 71215>>, <<71236, 71236>>, <<71248, 71257>>, <<71296, 71338>>,
     <<71352, 71352>>, <<71360, 71369>>, <<71424, 71450>>, <<71472, 71483>>, <<71488, 71494>>,
     <<71680, 71723>>, <<71840, 71922>>, <<71935, 71942>>, <<71945, 71945>>, <<71948, 71955>>,
     <<71957, 71958>>, <<71960, 71983>>, <<71999, 71999>>, <<72001, 72001>>, <<72016, 72025>>,
     <<72096, 72103>>, <<72106, 72144>>, <<72161, 72161>>, <<72163, 72163>>, <<72192, 72192>>,
     <<72203, 72242>>, <<72250, 72250>>, <<72272, 72272>>, <<72284, 72329>>, <<72349, 72349>>,
     <<72368, 72440>>, <<72704, 72712>>, <<72714, 72750>>, <<72768, 72768>>, <<72784, 72812>>,
     <<72818, 72847>>, <<72960, 72966>>, <<72968, 72969>>, <<72971, 73008>>, <<73030, 73030>>,
     <<73040, 73049>>, <<73056, 73061>>, <<73063, 73064>>, <<73066, 73097>>, <<73112, 73112>>,
     <<73120, 73129>>, <<73440, 73458>>, <<73648, 73648>>, <<73664, 73684>>, <<73728, 74649>>,
     <<74752, 74862>>, <<74880, 75075>>, <<77712, 77808>>, <<77824, 78894>>, <<82944, 83526>>,
     <<92160, 92728>>, <<92736, 92766>>, <<92768, 92777>>, <<92784, 92862>>, <<92864, 92873>>,
     <<92880, 92909>>, <<92928, 92975>>, <<92992, 92995>>, <<93008, 93017>>, <<93019, 93025>>,
     <<93027, 93047>>, <<93053, 93071>>, <<93760, 93846>>, <<93952, 94026>>, <<94032, 94032>>,
     <<94099, 94111>>, <<94176, 94177>>, <<94179, 94179>>, <<94208, 100343>>,
     <<100352, 101589>>, <<101632, 101640>>, <<110576, 110579>>, <<110581, 110587>>,
     <<110589, 110590>>, <<110592, 110882>>, <<110928, 110930>>, <<110948, 110951>>,
     <<110960, 111355>>, <<113664, 113770>>, <<113776, 113788>>, <<113792, 113800>>,
     <<113808, 113817>>, <<119520, 119539>>, <<119648, 119672>>, <<119808, 119892>>,
     <<119894, 119964>>, <<119966, 119967>>, <<119970, 119970>>, <<119973, 119974>>,
     <<119977, 119980>>, <<119982, 119993>>, <<119995, 119995>>, <<119997, 120003>>,
     <<120005, 120069>>, <<120071, 120074>>, <<120077, 120084>>, <<120086, 120092>>,
     <<120094, 120121>>, <<120123, 120126>>, <<120128, 120132>>, <<120134, 120134>>,
     <<120138, 120144>>, <<120146, 120485>>, <<120488, 120512>>, <<120514, 120538>>,
     <<120540, 120570>>, <<120572, 120596>>, <<120598, 120628>>, <<120630, 120654>>,
     <<120656, 120686>>, <<120688, 120712>>, <<120714, 120744>>, <<120746, 120770>>,
     <<120772, 120779>>, <<120782, 120831>>, <<122624, 122654>>, <<123136, 123180>>,
     <<123191, 123197>>, <<123200, 123209>>, <<123214, 123214>>, <<123536, 123565>>,
     <<123584, 123627>>, <<123632, 123641>>, <<124896, 124902>>, <<124904, 124907>>,
     <<124909, 124910>>, <<124912, 124926>>, <<124928, 125124>>, <<125127, 125135>>,
     <<125184, 125251>>, <<125259, 125259>>, <<125264, 125273>>, <<126065, 126123>>,
     <<126125, 126127>>, <<126129, 126132>>, <<126209, 126253>>, <<126255, 126269>>,
     <<126464, 126467>>, <<126469, 126495>>, <<126497, 126498>>, <<126500, 126500>>,
     <<126503, 126503>>, <<126505, 126514>>, <<126516, 126519>>, <<126521, 126521>>,
     <<126523, 126523>>, <<126530, 126530>>, <<126535, 126535>>, <<126537, 126537>>,
     <<126539, 126539>>, <<126541, 126543>>, <<126545, 126546>>, <<126548, 126548>>,
     <<126551, 126551>>, <<126553, 126553>>, <<126555, 126555>>, <<126557, 126557>>,
     <<126559, 126559>>, <<126561, 126562>>, <<126564, 126564>>, <<126567, 126570>>,
     <<126572, 126578>>, <<126580, 126583>>, <<126585, 126588>>, <<126590, 126590>>,
     <<126592, 126601>>, <<126603, 126619>>, <<126625, 126627>>, <<126629, 126633>>,
     <<126635, 126651>>, <<127232, 127244>>, <<130032, 130041>>, <<131072, 173791>>,
     <<173824, 177976>>, <<177984, 178205>>, <<178208, 183969>>, <<183984, 191456>>,
     <<194560, 195101>>, <<196608, 201546>>}

\* the characters str.isalnum() is true of
Alnum == {Chr(n) : n \in UNION {r[1]..r[2] : r \in AlnumRanges}}

\* str.isalnum() of one character
IsAlnum(c) == c \in Alnum

DigitChar(d) == <<"0", "1", "2", "3", "4", "5", "6", "7", "8", "9">>[d + 1]

RECURSIVE Dec(_)
\* decimal digits of a natural number
Dec(k) == IF k < 10 THEN <<DigitChar(k)>> ELSE Dec(k \div 10) \o <<DigitChar(k % 10)>>

\* f"{number:02d}"
Pad2(k) == IF k < 10 THEN <<"0">> \o Dec(k) ELSE Dec(k)

\* "".join(c if c.isalnum() or c in (' ', '-', '_') else '_' for c in subject)
SafeSubjectKeepsAll(subject) == subject

SafeSubject(subject) ==
    [i \in 1..Len(subject) |->
        IF IsAlnum(subject[i]) \/ subject[i] \in {" ", "-", "_"} THEN subject[i] ELSE "_"]

\* dir_name = f"{number:02d} {safe_subject}"
DirName(subject, number) == Pad2(number) \o <<" ">> \o SafeSubject(subject)

\* ------------------------------------------------------------- the remote wiki
\* Pages are numbered 1..n; the id the API reports for page i is the string of i.
PageId(i) == ToString(i)
NoParent == ""      \* parent_page_id = None
RootKey == "root"
Keys == {RootKey} \cup {PageId(i) : i \in 1..(MaxPages)}

\* project code given to WikiBackupManager
ProjectCode == <<"P", "/", "1">>

\* page["subject"] of page i
Subject(i) ==
    CASE i = 1 -> <<"a", "/", "b">>
      [] i = 2 -> <<"a", ":", "b">>
      [] i = 3 -> <<"a", "_", "b">>
      [] i = 4 -> <<"x", " ", "1">>
      [] OTHER -> <<"b", "-", "2">>


\* ------------------------------------------------------- media: shared pieces
\* What one call of downloader.download_file and the file operations after it do:
\*   "file"    a path is returned, the file exists and is moved into place
\*   "none"    None is returned (timeout, navigation or move failure inside download_file)
\*   "missing" a path is returned but os.path.exists is false
\*   "raise"   download_file raises (start() cannot attach to the browser)
\*   "nomove"  a path is returned and exists, shutil.move raises
DlOutcomes == {"file", "none", "missing", "raise", "nomove"}

\* p.rfind(c), 1-based, 0 when absent
LastIndex(p, c) ==
    LET hits == {i \in 1..Len(p) : p[i] = c}
    IN  IF hits = {} THEN 0 ELSE CHOOSE i \in hits : \A j \in hits : j <= i

\* os.path.splitext(p): <<root, ext>>
SplitExt(p) ==
    LET sepIndex == LastIndex(p, "/")
        dotIndex == LastIndex(p, ".")
    IN  IF dotIndex > sepIndex /\ \E k \in (sepIndex + 1)..(dotIndex - 1) : p[k] # "."
        THEN <<SubSeq(p, 1, dotIndex - 1), SubSeq(p, dotIndex, Len(p))>>
        ELSE <<p, <<>> >>

\* "".join(c if c.isalnum() or c in ('-', '_') else '_' for c in base_name)
SafeBase(base) ==
    [i \in 1..Len(base) |->
        IF IsAlnum(base[i]) \/ base[i] \in {"-", "_"} THEN base[i] ELSE "_"]

\* datetime.now().strftime('%Y%m%d_%H%M%S_%f'): the clock reading ts (microseconds
\* since the run started) in fixed width; only the low digits vary here.
Timestamp(ts) == <<"T">> \o Pad2(ts)

\* unique_filename = f"{base_name}_{timestamp}{ext}"
UniqueFilename(original, ts) ==
    LET parts == SplitExt(original)
    IN  SafeBase(parts[1]) \o <<"_">> \o Timestamp(ts) \o parts[2]

\* str.strip()
\* the characters str.strip() takes off (those str.isspace() is true of)
Whitespace ==
    {"\t", "\n", "U+000B", "\f", "\r", "U+001C", "U+001D", "U+001E", "U+001F", " ", "U+0085",
     "U+00A0", "U+1680", "U+2000", "U+2001", "U+2002", "U+2003", "U+2004", "U+2005", "U+2006",
     "U+2007", "U+2008", "U+2009", "U+200A", "U+2028", "U+2029", "U+202F", "U+205F", "U+3000"}
RECURSIVE Strip(_)
Strip(t) ==
    IF t = <<>> THEN t
    ELSE IF Head(t) \in Whitespace THEN Strip(Tail(t))
    ELSE IF t[Len(t)] \in Whitespace THEN Strip(SubSeq(t, 1, Len(t) - 1))
    ELSE t

\* ------------------------------------------------------------ inline images
\* pattern = r'!\[(.*?)\]\(/wikis/(\d+)/files/(\d+)\)'
LitOpen == <<"!", "[">>
LitWikis == <<"]", "(", "/", "w", "i", "k", "i", "s", "/">>
LitFiles == <<"/", "f", "i", "l", "e", "s", "/">>

\* the literal lit occurs in s at position i
LitAt(s, i, lit) ==
    /\ i >= 1
    /\ i + Len(lit) - 1 <= Len(s)
    /\ \A k \in 1..Len(lit) : s[i + k - 1] = lit[k]

RECURSIVE DigitsEnd(_, _)
\* \d+ is greedy: the position after the run of digits that starts at i
DigitsEnd(s, i) == IF i <= Len(s) /\ s[i] \in Digits THEN DigitsEnd(s, i + 1) ELSE i

NoMatch == [ok |-> FALSE]

\* (\d+)\) at c..d-1 after /files/: the match's groups and its end
TailFile(s, a, b, c, d) ==
    IF d = c \/ ~LitAt(s, d, <<")">>) THEN NoMatch
    ELSE [ok |-> TRUE, wiki |-> SubSeq(s, a, b - 1), file |-> SubSeq(s, c, d - 1), stop |-> d + 1]

\* (\d+)/files/ at a..b-1 after /wikis/
TailWikiEmptyDigits(s, a, b) ==
    IF ~LitAt(s, b, LitFiles) THEN NoMatch
    ELSE TailFile(s, a, b, b + Len(LitFiles), DigitsEnd(s, b + Len(LitFiles)))

TailWiki(s, a, b) ==
    IF b = a \/ ~LitAt(s, b, LitFiles) THEN NoMatch
    ELSE TailFile(s, a, b, b + Len(LitFiles), DigitsEnd(s, b + Len(LitFiles)))

\* \]\(/wikis/(\d+)/files/(\d+)\) at position j: the groups and the end, or no match
TailAt(s, j) ==
    IF ~LitAt(s, j, LitWikis) THEN NoMatch
    ELSE TailWiki(s, j + Len(LitWikis), DigitsEnd(s, j + Len(LitWikis)))

\* the least member of a non-empty set of positions
Least(S) == CHOOSE i \in S : \A j \in S : i <= j

\* the match that starts at i - 2 with its alt text ending before j, where the
\* rest of the pattern matched as t
MatchOf(s, i, j, t) ==
    [ok |-> TRUE, start |-> i - Len(LitOpen), alt |-> SubSeq(s, i, j - 1),
     wiki |-> t.wiki, file |-> t.file, stop |-> t.stop]

\* (.*?) is lazy: of the positions the alt text can end before, the first
LazyPick(s, i, ends) == IF ends = {} THEN NoMatch ELSE MatchOf(s, i, Least(ends), TailAt(s, Least(ends)))

\* (.*?) from position i: a run of characters other than the line break, followed
\* by the rest of the pattern
LazyAlt(s, i) ==
    LazyPick(s, i, {j \in i..Len(s) : TailAt(s, j).ok /\ \A k \in i..(j - 1) : s[k] # "\n"})

\* the pattern matched at position i
MatchAt(s, i) == IF LitAt(s, i, LitOpen) THEN LazyAlt(s, i + Len(LitOpen)) ELSE NoMatch

\* the leftmost of the positions a match starts at
LeftmostPick(s, starts) == IF starts = {} THEN NoMatch ELSE MatchAt(s, Least(starts))

\* re.search from position pos: the leftmost match
Search(s, pos) == LeftmostPick(s, {i \in pos..Len(s) : MatchAt(s, i).ok})

\* original_filename of replace_image
OriginalFilename(alt_text, file_id) ==
    IF Strip(alt_text) = <<>>
    THEN <<"i", "m", "a", "g", "e", "_">> \o file_id \o <<".", "p", "n", "g">>
    ELSE Strip(alt_text)

\* the words of the marker of a download that returned nothing
MarkDownloadFailed == <<"U+B2E4", "U+C6B4", "U+B85C", "U+B4DC", " ", "U+C2E4", "U+D328">>
\* the words of the marker of an exception
MarkProcessError == <<"U+CC98", "U+B9AC", " ", "U+C624", "U+B958">>

\* the text after ![alt] in a failure marker
MarkerTail(words, wiki_id, file_id) ==
    <<" ", "(">> \o words \o <<" ", "-", " ", "W", "i", "k", "i", " ", "I", "D", ":", " ">>
    \o wiki_id
    \o <<",", " ", "F", "i", "l", "e", " ", "I", "D", ":", " ">> \o file_id \o <<")">>

\* what replace_image returns for match m, the download's outcome out and the
\* generated unique_filename
ReplaceTextSwapsIds(m, out, unique_filename) ==
    <<"!", "[">> \o m.alt \o <<"]">> \o
    (CASE out.dl = "file" ->
            <<"(", "i", "m", "a", "g", "e", "s", "/">> \o unique_filename \o <<")">>
       [] out.dl \in {"none", "missing"} -> MarkerTail(MarkDownloadFailed, m.file, m.wiki)
       [] OTHER -> MarkerTail(MarkProcessError, m.file, m.wiki))

ReplaceText(m, out, unique_filename) ==
    <<"!", "[">> \o m.alt \o <<"]">> \o
    (CASE out.dl = "file" ->
            <<"(", "i", "m", "a", "g", "e", "s", "/">> \o unique_filename \o <<")">>
       [] out.dl \in {"none", "missing"} -> MarkerTail(MarkDownloadFailed, m.wiki, m.file)
       [] OTHER -> MarkerTail(MarkProcessError, m.wiki, m.file))

\* replace_image(match): the exception it lets out (never one: the try covers the
\* download and the move) and the replacement text
ReplaceImageUncaught(m, out, unique_filename) ==
    [raised |-> out.dl \in {"raise", "nomove"}, text |-> ReplaceText(m, out, unique_filename)]

ReplaceImage(m, out, unique_filename) ==
    [raised |-> FALSE, text |-> ReplaceText(m, out, unique_filename)]

RECURSIVE SubImages(_, _, _, _, _, _)
\* one match m of re.sub replaced: r is what replace_image did for it
SubReplaced(s, pos, outs, j, now, acc, m, name, r) ==
    IF r.raised
    THEN [raised |-> TRUE, content |-> <<>>,
          downloads |-> Append(acc.downloads,
                               [file_id |-> m.file, file_name |-> name, is_inline |-> TRUE]),
          names |-> Append(acc.names, name), clock |-> now]
    ELSE SubImages(s, m.stop, outs, j + 1, now,
                   [content |-> acc.content \o SubSeq(s, pos, m.start - 1) \o r.text,
                    downloads |-> Append(acc.downloads,
                                         [file_id |-> m.file, file_name |-> name, is_inline |-> TRUE]),
                    names |-> Append(acc.names, name)])

\* replace_image called for match m with the clock reading now
SubNamed(s, pos, outs, j, now, acc, m, name) ==
    SubReplaced(s, pos, outs, j, now, acc, m, name, ReplaceImage(m, outs[j + 1], name))

\* re.sub at the next match m, if any
SubMatch(s, pos, outs, j, ts, acc, m) ==
    IF ~m.ok
    THEN [raised |-> FALSE, content |-> acc.content \o SubSeq(s, pos, Len(s)),
          downloads |-> acc.downloads, names |-> acc.names, clock |-> ts]
    ELSE SubNamed(s, pos, outs, j, ts + outs[j + 1].tick, acc, m,
                  UniqueFilename(OriginalFilename(m.alt, m.file), ts + outs[j + 1].tick))

\* re.sub(pattern, replace_image, content) from position pos; j downloads were
\* made so far, ts is the last clock reading, acc the result built so far
SubImages(s, pos, outs, j, ts, acc) == SubMatch(s, pos, outs, j, ts, acc, Search(s, pos))

\* _process_inline_images(content, page_path) with the downloads' outcomes outs
\* and the clock at ts
ProcessInlineImages(content, outs, ts) ==
    SubImages(content, 1, outs, 0, ts, [content |-> <<>>, downloads |-> <<>>, names |-> <<>>])

RECURSIVE CountMatches(_, _)
CountStep(s, m) == IF m.ok THEN 1 + CountMatches(s, m.stop) ELSE 0

\* the number of non-overlapping matches re.sub visits from pos
CountMatches(s, pos) == CountStep(s, Search(s, pos))

\* --------------------------------------------------------------- attachments
\* An attachment descriptor is a function from some of "name", "id", "size";
\* file[k] raises KeyError when k is not a key of it.
Has(file, k) == k \in DOMAIN file

\* " (U+D06C U+AE30: n bytes)\n" at the end of every line of the attachment list
SizeTail(size) ==
    <<" ", "(", "U+D06C", "U+AE30", ":", " ">> \o Dec(size)
    \o <<" ", "b", "y", "t", "e", "s", ")", "\n">>

LinkLine(file, unique_filename) ==
    <<"-", " ", "[">> \o file["name"] \o <<"]", "(">> \o <<"a", "t", "t", "a", "c", "h", "m", "e", "n", "t", "s", "/">>
    \o unique_filename \o <<")">> \o SizeTail(file["size"])

\* "- name (words) (U+D06C U+AE30: n bytes)\n" for the words of either failure marker
FailLine(file, words) ==
    <<"-", " ">> \o file["name"] \o <<" ", "(">> \o words \o <<")">> \o SizeTail(file["size"])

\* the try block from the download on, for a descriptor with a name and an id
AttachTried(file, out, unique_filename) ==
    LET dl == [file_id |-> file["id"], file_name |-> unique_filename, is_inline |-> FALSE]
        base == [called |-> TRUE, timed |-> TRUE, name |-> unique_filename, download |-> dl]
    IN  IF ~Has(file, "size")
        THEN [kind |-> "raise"] @@ base
        ELSE IF out.dl \in {"raise", "nomove"}
        THEN [kind |-> "error", line |-> FailLine(file, MarkProcessError)] @@ base
        ELSE IF out.dl = "file"
        THEN [kind |-> "link", line |-> LinkLine(file, unique_filename)] @@ base
        ELSE [kind |-> "failed", line |-> FailLine(file, MarkDownloadFailed)] @@ base

\* The body of the for loop of _process_attachments for one descriptor: the try
\* block and its except handler.  kind: "link", "failed", "error" (a line was
\* appended) or "raise" (the handler itself raised); called: download_file was called.
AttachOne(file, out, ts) ==
    IF ~Has(file, "name")
    THEN [kind |-> "raise", called |-> FALSE, timed |-> FALSE]
    ELSE IF ~Has(file, "id")
    THEN IF Has(file, "size")
         THEN [kind |-> "error", called |-> FALSE, timed |-> FALSE,
               line |-> FailLine(file, MarkProcessError)]
         ELSE [kind |-> "raise", called |-> FALSE, timed |-> FALSE]
    ELSE AttachTried(file, out, UniqueFilename(file["name"], ts))

RECURSIVE AttachLoop(_, _, _, _, _, _)
\* descriptor k handled with result r at clock reading now
AttachDone(files, k, outs, j, now, acc, r) ==
    IF r.kind = "raise"
    THEN [raised |-> TRUE, links |-> <<>>,
          downloads |-> IF r.called THEN Append(acc.downloads, r.download) ELSE acc.downloads,
          names |-> IF r.timed THEN Append(acc.names, r.name) ELSE acc.names,
          handled |-> k - 1, clock |-> now]
    ELSE AttachLoop(files, k + 1, outs, IF r.called THEN j + 1 ELSE j, now,
                    [links |-> Append(acc.links, r.line),
                     downloads |-> IF r.called THEN Append(acc.downloads, r.download)
                                   ELSE acc.downloads,
                     names |-> IF r.timed THEN Append(acc.names, r.name) ELSE acc.names])

\* for file in files, from descriptor k on; j downloads were made so far
AttachLoop(files, k, outs, j, ts, acc) ==
    IF k > Len(files)
    THEN [raised |-> FALSE, links |-> acc.links, downloads |-> acc.downloads,
          names |-> acc.names, handled |-> k - 1, clock |-> ts]
    ELSE IF Has(files[k], "name") /\ Has(files[k], "id")
    THEN AttachDone(files, k, outs, j, ts + outs[j + 1].tick, acc,
                    AttachOne(files[k], outs[j + 1], ts + outs[j + 1].tick))
    ELSE AttachDone(files, k, outs, j, ts, acc, AttachOne(files[k], [dl |-> "none", tick |-> 0], ts))

\* _process_attachments(files, page_path) with the downloads' outcomes outs
ProcessAttachments(files, outs, ts) ==
    IF files = <<>>
    THEN [raised |-> FALSE, links |-> <<>>, downloads |-> <<>>, names |-> <<>>,
          handled |-> 0, clock |-> ts]
    ELSE AttachLoop(files, 1, outs, 0, ts, [links |-> <<>>, downloads |-> <<>>, names |-> <<>>])

\* --------------------------------------------------------------- _save_page
TitleLine(title) == <<"#", " ">> \o title \o <<"\n", "\n">>
\* the heading line of the attachment list
HeadingLine == <<"#", "#", " ">> \o <<"U+CCA8", "U+BD80", " ", "U+D30C", "U+C77C">>
AttachHeading == <<"\n", "\n">> \o HeadingLine \o <<"\n">>

RECURSIVE Flatten(_)
\* "".join(lines)
Flatten(lines) == IF lines = <<>> THEN <<>> ELSE Head(lines) \o Flatten(Tail(lines))

\* the end of _save_page: img and att are what the two media steps returned
SaveContentAlwaysHeading(files, img, att) ==
    IF att.raised
    THEN [raised |-> TRUE]
    ELSE [raised |-> FALSE,
          content |-> img.content \o AttachHeading \o Flatten(att.links),
          attachments |-> files,
          downloads |-> img.downloads \o att.downloads,
          names |-> img.names \o att.names]

SaveContent(files, img, att) ==
    IF att.raised
    THEN [raised |-> TRUE]
    ELSE [raised |-> FALSE,
          content |-> IF att.links # <<>>
                      THEN img.content \o AttachHeading \o Flatten(att.links)
                      ELSE img.content,
          attachments |-> files,
          downloads |-> img.downloads \o att.downloads,
          names |-> img.names \o att.names]

\* _save_page after _process_inline_images returned img
SaveAttachments(files, outs, img) ==
    IF img.raised
    THEN [raised |-> TRUE]
    ELSE SaveContent(files, img,
                     ProcessAttachments(files, SubSeq(outs, Len(img.downloads) + 1, Len(outs)),
                                        img.clock))

\* _save_page(page_data, content_data, page_path) up to the two file writes:
\* the content to write, or the exception raised on the way.  outs are the
\* outcomes of the downloads in the order they are made.
SavePage(title, body, files, outs, ts) ==
    SaveAttachments(files, outs, ProcessInlineImages(TitleLine(title) \o body, outs, ts))

\* ------------------------------------------------------------- page fixtures
ImgA == <<"!", "[", "a", "]", "(", "/", "w", "i", "k", "i", "s", "/", "1", "/",
          "f", "i", "l", "e", "s", "/", "2", ")">>
FileDoc == [name |-> <<"d", ".", "p">>, id |-> <<"7">>, size |-> 3]
FileImg == [name |-> <<"a", " ", "b">>, id |-> <<"8">>, size |-> 12]

\* content_data["result"]["body"]["content"] of page i
Body(i) ==
    CASE i = 1 -> <<"x", " ">> \o ImgA
      [] i = 3 -> ImgA \o <<"\n">>
      [] OTHER -> <<"x">>

\* content_data["result"]["files"] of page i
Files(i) ==
    CASE i = 2 -> <<FileDoc, FileImg>>
      [] i = 3 -> <<FileDoc>>
      [] OTHER -> <<>>

\* the downloads _save_page makes for page i
NDownloads(i) == CountMatches(TitleLine(Subject(i)) \o Body(i), 1) + Len(Files(i))

\* the download environments the traversal is run against
TravOutcomes == [dl : DlOutcomes, tick : {1}]

VARIABLES
    npages,          \* number of pages of the wiki
    parentOf,        \* parentOf[i]: 0 for a top-level page, else the parent page
    limit,           \* config.page_limit
    failAt,          \* ordinal of the fatal operation that fails (0: none)
    ops,             \* fatal operations (API calls, file writes) attempted so far
    pc,              \* position of backup()
    stack,           \* active backup_recursive frames, innermost last
    count,           \* page_counter.count
    level_counters,  \* page_counter.level_counters
    log,             \* _save_page calls so far: page, sibling number, key, directory
    dirs,            \* numbered directories created so far
    calls,           \* API calls made so far
    numbers,         \* sibling numbers handed out so far, as <<key, number>>
    err,             \* the error backup() raised, "" if none
    unwound,         \* backup_recursive frames the raised error went through
    dlfail,          \* some download of this run returned nothing or raised
    prev,            \* the outcome of the previous run on the same wiki, if any
    media_pc,        \* position of the media check: "off", "input", "done", "again"
    media_in,        \* its input: a body or a descriptor list, and the downloads' outcomes
    media_out,       \* what the function under check returned
    extra,           \* listing entries beyond the tree: <<p, i>>: page i is also listed under page p
    titles,          \* the subjects _create_numbered_dir was called with, when run on its own
    main_pc,         \* position of main(): "off", "loop", "done", "failed"
    projects,        \* main(): the selected projects still to back up
    now,             \* main(): the wall clock, in whole seconds
    backup_dirs,     \* main(): the backup directory of each WikiBackupManager made so far
    finished,        \* main(): how the backup of each project begun so far ended
    dl_pc,           \* position of download_file: "off", "start", "before", "get", "poll", "returned", "raised"
    folder,          \* download_file: the names in the download folder when it was last listed
    before_files,    \* download_file: the names listed before the request
    polls,           \* download_file: the listings made by the polling loop so far
    observed,        \* download_file: the new, completed files those listings showed
    dl_event,        \* download_file: what ended the call, "" while it runs
    returned         \* download_file: the name of the file it moved and returned, <<>> for None

mediavars == <<media_pc, media_in, media_out>>
mainvars == <<main_pc, projects, now, backup_dirs, finished>>
dlvars == <<dl_pc, folder, before_files, polls, observed, dl_event, returned>>

\* the wiki, the quota and the failing operation
wikivars == <<npages, parentOf, extra, limit, failAt>>

\* the state of one run of backup()
runvars == <<ops, pc, stack, count, level_counters, log, dirs, calls, numbers, err,
             unwound, dlfail, prev>>

vars == <<wikivars, runvars, mediavars, titles, mainvars, dlvars>>

\* what a run of backup() never changes
fixed == <<wikivars, mediavars, titles, mainvars, dlvars>>

\* -------------------------------------------------------------- PageCounter
\* return self.limit == -1 or self.count <= self.limit   (count already incremented)
IncrementOkAlways(cnt, lim) == TRUE
IncrementOkNoSentinel(cnt, lim) == cnt <= lim
IncrementOkStrict(cnt, lim) == lim = Unlimited \/ cnt < lim
IncrementOk(cnt, lim) == lim = Unlimited \/ cnt <= lim

\* self.count += 1
NextCountStuck(cnt) == cnt
NextCount(cnt) == cnt + 1

\* get_next_number: the counters after self.level_counters[parent_id] += 1
NextCountersShared(lc, key) == [k \in DOMAIN lc |-> lc[k] + 1]
NextCounters(lc, key) == [lc EXCEPT ![key] = @ + 1]

\* if self.page_counter.count >= self.page_counter.limit and self.page_counter.limit != -1
QuotaReachedNever(cnt, lim) == FALSE
QuotaReached(cnt, lim) == cnt >= lim /\ lim # Unlimited

\* parent_page_id or 'root'
ParentKey(parent_page_id) == IF parent_page_id = NoParent THEN RootKey ELSE parent_page_id

\* ------------------------------------------------------------ DoorayAPIClient
PageIndex(id) == CHOOSE i \in 1..npages : PageId(i) = id

RECURSIVE Ascending(_, _)
\* the members of set S of page numbers from k up, in ascending order
Ascending(S, k) ==
    IF k > npages THEN <<>>
    ELSE IF k \in S THEN <<k>> \o Ascending(S, k + 1)
    ELSE Ascending(S, k + 1)

\* get_pages(parent_page_id)["result"]: the pages under the parent, top-level
\* pages for a falsy parent id, in the order the API lists them
GetPages(parent_page_id) ==
    LET par == IF parent_page_id = NoParent THEN 0 ELSE PageIndex(parent_page_id)
    IN  Ascending({i \in 1..npages : parentOf[i] = par \/ <<par, i>> \in extra}, 1)

\* ------------------------------------------------------------------ traversal
Frame(parent, base) ==
    [parent |-> parent, base |-> base, pages |-> <<>>, idx |-> 0, number |-> 0, path |-> <<>>]

Top == stack[Len(stack)]
SetTop(f) == [stack EXCEPT ![Len(stack)] = f]

\* a fatal operation raises when it is the failAt-th one
Fails(k) == failAt # 0 /\ k = failAt

\* except Exception: log, return   (the frame swallows the error)
RaiseSwallowed(e) ==
    /\ pc' = IF Len(stack) <= 1 THEN "done" ELSE "loop"
    /\ stack' = IF Len(stack) <= 1 THEN <<>>
                ELSE Append(SubSeq(stack, 1, Len(stack) - 2),
                            [stack[Len(stack) - 1] EXCEPT !.idx = @ + 1])
    /\ err' = e
    /\ unwound' = 1

\* except Exception: log, raise   in backup_recursive and in backup(): the
\* exception propagates through every frame and out of backup()
Raise(e) ==
    /\ pc' = "failed"
    /\ stack' = <<>>
    /\ err' = e
    /\ unwound' = Len(stack)

\* return from the innermost backup_recursive frame
Return ==
    /\ stack' = IF Len(stack) = 1 THEN <<>>
                ELSE Append(SubSeq(stack, 1, Len(stack) - 2),
                            [stack[Len(stack) - 1] EXCEPT !.idx = @ + 1])
    /\ pc' = IF Len(stack) = 1 THEN "done" ELSE "loop"
    /\ UNCHANGED <<err, unwound>>

\* if not root_pages.get("result")
NoRootPagesNever(result) == FALSE
NoRootPages(result) == result = <<>>

\* backup(): root_pages = self.api_client.get_pages() and the no-root test
Start ==
    /\ pc = "start"
    /\ ops' = ops + 1
    /\ calls' = Append(calls, <<"get_pages", NoParent>>)
    /\ IF Fails(ops + 1) THEN Raise("api")
       ELSE IF NoRootPages(GetPages(NoParent)) THEN Raise("noroot")
       ELSE pc' = "rootContent" /\ UNCHANGED <<stack, err, unwound>>
    /\ UNCHANGED <<fixed, count, level_counters, log, dirs, numbers, dlfail, prev>>

\* root_page = root_pages["result"][0]
RootPageLast == GetPages(NoParent)[Len(GetPages(NoParent))]
RootPage == Head(GetPages(NoParent))

\* backup(): root_page = root_pages["result"][0], then
\* root_content = self.api_client.get_page_content(root_page["id"])
RootContent ==
    /\ pc = "rootContent"
    /\ IF GetPages(NoParent) = <<>>
       THEN Raise("index") /\ UNCHANGED <<ops, calls>>
       ELSE /\ ops' = ops + 1
            /\ calls' = Append(calls, <<"get_page_content", PageId(RootPage)>>)
            /\ IF Fails(ops + 1) THEN Raise("api")
               ELSE pc' = "rootDir" /\ UNCHANGED <<stack, err, unwound>>
    /\ UNCHANGED <<fixed, count, level_counters, log, dirs, numbers, dlfail, prev>>

\* _save_page from its call to its return: the media, then the two file writes
SaveStep(page, number, key, path, next) ==
    \E outs \in [1..NDownloads(page) -> TravOutcomes] :
        /\ log' = Append(log, [page |-> PageId(page), number |-> number,
                               key |-> key, path |-> path])
        /\ dlfail' = (dlfail \/ \E i \in DOMAIN outs : outs[i].dl # "file")
        /\ IF SavePage(Subject(page), Body(page), Files(page), outs, 0).raised
           THEN ops' = ops /\ Raise("media")
           ELSE IF Fails(ops + 1) THEN ops' = ops + 1 /\ Raise("write")
           ELSE IF Fails(ops + 2) THEN ops' = ops + 2 /\ Raise("write")
           ELSE ops' = ops + 2 /\ next

\* self.project_code: the code main() made the manager with; the fixture when
\* backup() is run on its own
project_code == IF main_pc = "backup" THEN Head(projects) ELSE ProjectCode

\* backup(): root_path = self._create_numbered_dir(self.backup_dir,
\* self.project_code, 1), then the unconditional increment() and
\* get_next_number('root')
RootDir ==
    /\ pc = "rootDir"
    /\ dirs' = Append(dirs, <<DirName(project_code, 1)>>)
    /\ count' = NextCount(count)
    /\ level_counters' = NextCounters(level_counters, RootKey)
    /\ numbers' = Append(numbers, <<RootKey, NextCounters(level_counters, RootKey)[RootKey]>>)
    /\ pc' = "rootSave"
    /\ UNCHANGED <<fixed, ops, stack, log, calls, err, unwound, dlfail, prev>>

\* backup(): self._save_page(root_page, root_content, root_path), then the call
\* of backup_recursive(root_page["id"], root_path)
RootSave ==
    /\ pc = "rootSave"
    /\ SaveStep(RootPage, 1, RootKey, <<DirName(project_code, 1)>>,
                /\ stack' = <<Frame(PageId(RootPage), <<DirName(project_code, 1)>>)>>
                /\ pc' = "enter"
                /\ UNCHANGED <<err, unwound>>)
    /\ UNCHANGED <<fixed, count, level_counters, dirs, calls, numbers, prev>>

\* backup_recursive: the quota test on entry, then pages = get_pages(parent_page_id)
Enter ==
    /\ pc = "enter"
    /\ IF QuotaReached(count, limit)
       THEN Return /\ UNCHANGED <<ops, calls>>
       ELSE /\ ops' = ops + 1
            /\ calls' = Append(calls, <<"get_pages", Top.parent>>)
            /\ IF Fails(ops + 1) THEN Raise("api")
               ELSE /\ stack' = SetTop([Top EXCEPT !.pages = GetPages(Top.parent), !.idx = 1])
                    /\ pc' = "loop"
                    /\ UNCHANGED <<err, unwound>>
    /\ UNCHANGED <<fixed, count, level_counters, log, dirs, numbers, dlfail, prev>>

\* backup_recursive: the head of the for loop: increment(), get_next_number and
\* _create_numbered_dir for the next listed page
Loop ==
    /\ pc = "loop"
    /\ IF Top.idx > Len(Top.pages)
       THEN Return /\ UNCHANGED <<count, level_counters, numbers, dirs>>
       ELSE /\ count' = NextCount(count)
            /\ IF ~IncrementOk(NextCount(count), limit)
               THEN Return /\ UNCHANGED <<level_counters, numbers, dirs>>
               ELSE LET key == ParentKey(Top.parent)
                        lc == NextCounters(level_counters, key)
                        page == Top.pages[Top.idx]
                        page_path == Append(Top.base, DirName(Subject(page), lc[key]))
                    IN  /\ level_counters' = lc
                        /\ numbers' = Append(numbers, <<key, lc[key]>>)
                        /\ dirs' = Append(dirs, page_path)
                        /\ stack' = SetTop([Top EXCEPT !.number = lc[key], !.path = page_path])
                        /\ pc' = "content"
                        /\ UNCHANGED <<err, unwound>>
    /\ UNCHANGED <<fixed, ops, calls, log, dlfail, prev>>

\* backup_recursive: page_content = self.api_client.get_page_content(page["id"])
Content ==
    /\ pc = "content"
    /\ ops' = ops + 1
    /\ calls' = Append(calls, <<"get_page_content", PageId(Top.pages[Top.idx])>>)
    /\ IF Fails(ops + 1) THEN Raise("api")
       ELSE pc' = "save" /\ UNCHANGED <<stack, err, unwound>>
    /\ UNCHANGED <<fixed, count, level_counters, log, dirs, numbers, dlfail, prev>>

\* backup_recursive: self._save_page(page, page_content, page_path), then the
\* call of backup_recursive(page["id"], page_path)
Save ==
    /\ pc = "save"
    /\ Len(stack) < MaxDepth
    /\ SaveStep(Top.pages[Top.idx], Top.number, ParentKey(Top.parent), Top.path,
                /\ stack' = Append(stack, Frame(PageId(Top.pages[Top.idx]), Top.path))
                /\ pc' = "enter"
                /\ UNCHANGED <<err, unwound>>)
    /\ UNCHANGED <<fixed, count, level_counters, dirs, calls, numbers, prev>>

\* the state a new WikiBackupManager starts backup() in
Fresh ==
    /\ ops = 0
    /\ pc = "start"
    /\ stack = <<>>
    /\ count = 0
    /\ level_counters = [k \in Keys |-> 0]
    /\ log = <<>>
    /\ dirs = <<>>
    /\ calls = <<>>
    /\ numbers = <<>>
    /\ err = ""
    /\ unwound = 0
    /\ dlfail = FALSE

\* a second run on the same wiki with the same quota and the same fatal failure:
\* a new WikiBackupManager with a new PageCounter
Rerun ==
    /\ pc \in {"done", "failed"}
    /\ prev = <<>>
    /\ prev' = <<[log |-> log, dirs |-> dirs, numbers |-> numbers, pc |-> pc,
                  err |-> err, dlfail |-> dlfail]>>
    /\ ops' = 0
    /\ pc' = "start"
    /\ stack' = <<>>
    /\ count' = 0
    /\ level_counters' = [k \in Keys |-> 0]
    /\ log' = <<>>
    /\ dirs' = <<>>
    /\ calls' = <<>>
    /\ numbers' = <<>>
    /\ err' = ""
    /\ unwound' = 0
    /\ dlfail' = FALSE
    /\ UNCHANGED fixed

\* the wikis: page i > 1 hangs under an earlier page or is top-level
Trees(n) == {f \in [1..n -> 0..(n - 1)] : \A i \in 1..n : f[i] < i}

MediaOff ==
    /\ media_pc = "off"
    /\ media_in = <<>>
    /\ media_out = <<>>

\* main() is not running
MainOff ==
    /\ main_pc = "off"
    /\ projects = <<>>
    /\ now = 0
    /\ backup_dirs = <<>>
    /\ finished = <<>>

\* no download_file call is under way
DownloadOff ==
    /\ dl_pc = "off"
    /\ folder = {}
    /\ before_files = {}
    /\ polls = 0
    /\ observed = {}
    /\ dl_event = ""
    /\ returned = <<>>

\* a wiki whose listing is the tree
TreeOnly == extra = {}

Init ==
    /\ npages \in 0..MaxPages
    /\ parentOf \in Trees(npages)
    /\ limit \in {Unlimited} \cup 0..MaxQuota
    /\ failAt \in 0..MaxFailAt
    /\ prev = <<>>
    /\ Fresh
    /\ MediaOff
    /\ TreeOnly
    /\ titles = <<>>
    /\ MainOff
    /\ DownloadOff

Next == Start \/ RootContent \/ RootDir \/ RootSave \/ Enter \/ Loop \/ Content \/ Save \/ Rerun

Spec == Init /\ [][Next]_vars

\* ------------------------------------------ backup() on listings that may loop
\* the listings beyond the tree: none, or one page also listed under itself or
\* under a later page, so that the child listing never runs out
Loops(n) == {{}} \cup {{e} : e \in {q \in (1..n) \X (1..n) : q[2] <= q[1]}}

\* one run of backup(): any wiki of up to TermPages pages, any page_limit (a
\* negative one other than -1 included), any fatal failure; the listing may loop
\* when the quota is finite
TermInit ==
    /\ npages \in 0..TermPages
    /\ parentOf \in Trees(npages)
    /\ limit \in {Unlimited - 1, Unlimited} \cup 0..TermQuota
    /\ failAt \in 0..TermFailAt
    /\ extra \in IF limit = Unlimited THEN {{}} ELSE Loops(npages)
    /\ prev = <<>>
    /\ Fresh
    /\ MediaOff
    /\ titles = <<>>
    /\ MainOff
    /\ DownloadOff

TermNext == Start \/ RootContent \/ RootDir \/ RootSave \/ Enter \/ Loop \/ Content \/ Save

\* the pages with inline images or attachments: _save_page calls download_file
MediaPages == {i \in 1..MaxPages : NDownloads(i) > 0}

\* _save_page is about to be called for a page with inline images or attachments
SavingMedia ==
    IF pc = "save" THEN Top.pages[Top.idx] \in MediaPages
    ELSE IF pc = "rootSave" THEN RootPage \in MediaPages
    ELSE FALSE

\* _save_page of a page without media returns or raises: the step that RootSave
\* or Save takes, seen on the position alone
SaveReturns ==
    /\ pc \in {"rootSave", "save"}
    /\ pc = "save" => Len(stack) < MaxDepth
    /\ ~SavingMedia
    /\ pc' \in {"enter", "failed"}

\* backup() is about to make an API request, or to save a page whose media are
\* fetched through the browser: requests.request is called without a timeout and
\* driver.get returns when the browser answers, so the step is taken only when
\* the request has its outcome, a result or a failure
Waiting ==
    \/ pc \in {"start", "rootContent", "content"}
    \/ pc = "enter" /\ ~QuotaReached(count, limit)
    \/ SavingMedia

\* backup() keeps running where it waits for nothing but its own code: the root
\* directory and numbering, the loop head, the return on entry and _save_page of
\* a page without media.  No fairness for the API requests and the browser.
SpecTerm ==
    /\ TermInit
    /\ [][TermNext]_vars
    /\ WF_vars(RootDir)
    /\ WF_vars(Loop)
    /\ WF_vars(Enter /\ QuotaReached(count, limit))
    /\ WF_pc(SaveReturns)

\* ------------------------------------------- _process_inline_images on its own
ImgE == <<"!", "[", "]", "(", "/", "w", "i", "k", "i", "s", "/", "1", "0", "/",
          "f", "i", "l", "e", "s", "/", "2", "0", ")">>
ImgNoDigits == <<"!", "[", "a", "]", "(", "/", "w", "i", "k", "i", "s", "/", "/",
                 "f", "i", "l", "e", "s", "/", "2", ")">>
ImgOther == <<"!", "[", "a", "]", "(", "x", ")">>
ImgTail == <<"]", "(", "/", "w", "i", "k", "i", "s", "/", "1", "/",
             "f", "i", "l", "e", "s", "/", "2", ")">>

\* the pieces page bodies are put together from
Fragments == <<ImgA, ImgE, ImgNoDigits, ImgOther, LitOpen, ImgTail, <<"\n">>, <<"x">> >>

\* the bodies of at most MaxFrags pieces
FragSeqs == UNION {[1..n -> 1..Len(Fragments)] : n \in 0..MaxFrags}
BodyOf(fs) == Flatten([k \in 1..Len(fs) |-> Fragments[fs[k]]])

\* the environments of n downloads: each one's outcome, and a clock that either
\* moves on between any two readings of datetime.now() (tick 1) or stands still
\* (tick 0: the same microsecond is read again)
Envs(n) ==
    {[k \in 1..n |-> [dl |-> d[k], tick |-> t]] : d \in [1..n -> DlOutcomes], t \in {0, 1}}

\* a manager that is not running backup()
Idle ==
    /\ npages = 0
    /\ parentOf = <<>>
    /\ limit = Unlimited
    /\ failAt = 0
    /\ prev = <<>>
    /\ Fresh
    /\ TreeOnly
    /\ titles = <<>>
    /\ MainOff
    /\ DownloadOff

RewriteInit ==
    /\ Idle
    /\ media_pc = "input"
    /\ \E fs \in FragSeqs : media_in = [body |-> BodyOf(fs), outs |-> <<>>]
    /\ media_out = <<>>

\* content = self._process_inline_images(content, page_path)
Rewrite ==
    /\ media_pc = "input"
    /\ \E outs \in Envs(CountMatches(media_in.body, 1)) :
          /\ media_in' = [media_in EXCEPT !.outs = outs]
          /\ media_out' = <<ProcessInlineImages(media_in.body, outs, 0)>>
    /\ media_pc' = "done"
    /\ UNCHANGED <<wikivars, runvars, titles, mainvars, dlvars>>

\* _process_inline_images applied to what it returned
RewriteAgain ==
    /\ media_pc = "done"
    /\ ~media_out[1].raised
    /\ \E outs \in Envs(CountMatches(media_out[1].content, 1)) :
          media_out' = Append(media_out,
                              ProcessInlineImages(media_out[1].content, outs, media_out[1].clock))
    /\ media_pc' = "again"
    /\ UNCHANGED <<wikivars, runvars, titles, mainvars, dlvars, media_in>>

RewriteNext == Rewrite \/ RewriteAgain

SpecRewrite == RewriteInit /\ [][RewriteNext]_vars

\* ---------------------------------------------- _process_attachments on its own
FileNoName == [id |-> <<"7">>, size |-> 3]
FileNoId == [name |-> <<"d", ".", "p">>, size |-> 3]
FileNoSize == [name |-> <<"d", ".", "p">>, id |-> <<"7">>]

\* the descriptors a files list is put together from
Descriptors == <<FileDoc, FileImg, FileNoName, FileNoId, FileNoSize>>
FileSeqs == UNION {[1..n -> 1..Len(Descriptors)] : n \in 0..MaxFiles}
FilesOf(ds) == [k \in 1..Len(ds) |-> Descriptors[ds[k]]]

AttachInit ==
    /\ Idle
    /\ media_pc = "input"
    /\ \E ds \in FileSeqs : media_in = [files |-> FilesOf(ds), outs |-> <<>>]
    /\ media_out = <<>>

\* attachment_links = self._process_attachments(files, page_path)
Attach ==
    /\ media_pc = "input"
    /\ \E outs \in Envs(Len(media_in.files)) :
          /\ media_in' = [media_in EXCEPT !.outs = outs]
          /\ media_out' = <<ProcessAttachments(media_in.files, outs, 0)>>
    /\ media_pc' = "done"
    /\ UNCHANGED <<wikivars, runvars, titles, mainvars, dlvars>>

AttachNext == Attach

SpecAttach == AttachInit /\ [][AttachNext]_vars

\* ------------------------------------------------------ _save_page on its own
\* the bodies _save_page is run on: without and with an inline image
SaveBodies == << <<"x">>, <<"x", " ">> \o ImgA \o <<"\n">> >>

SaveInit ==
    /\ Idle
    /\ media_pc = "input"
    /\ \E b \in 1..Len(SaveBodies), ds \in FileSeqs :
          media_in = [title |-> Subject(1), body |-> SaveBodies[b], files |-> FilesOf(ds),
                      outs |-> <<>>]
    /\ media_out = <<>>

\* self._save_page(page, page_content, page_path) with both writes succeeding:
\* media_out is the content written to content.md, or the exception raised
SaveRun ==
    /\ media_pc = "input"
    /\ \E outs \in [1..(CountMatches(TitleLine(media_in.title) \o media_in.body, 1)
                         + Len(media_in.files)) -> TravOutcomes] :
          /\ media_in' = [media_in EXCEPT !.outs = outs]
          /\ media_out' = <<SavePage(media_in.title, media_in.body, media_in.files, outs, 0)>>
    /\ media_pc' = "done"
    /\ UNCHANGED <<wikivars, runvars, titles, mainvars, dlvars>>

SaveNext == SaveRun

SpecSave == SaveInit /\ [][SaveNext]_vars

\* ------------------------------------------- _create_numbered_dir on its own
\* the characters page subjects are made of here
TitleChars == {"a", " ", "_", "/", "\\", ":", "U+D55C"}
Titles == UNION {[1..n -> TitleChars] : n \in 0..MaxTitle}

\* the parent whose children are numbered, and the values its sibling counter
\* has before the two calls
DirParent == PageId(1)
StartCounts == {0, 8, 98}

DirInit ==
    /\ npages = 0 /\ parentOf = <<>> /\ limit = Unlimited /\ failAt = 0
    /\ TreeOnly
    /\ prev = <<>>
    /\ ops = 0 /\ pc = "none" /\ stack = <<>> /\ count = 0
    /\ \E c \in StartCounts : level_counters = [k \in Keys |-> IF k = DirParent THEN c ELSE 0]
    /\ log = <<>> /\ dirs = <<>> /\ calls = <<>> /\ numbers = <<>>
    /\ err = "" /\ unwound = 0 /\ dlfail = FALSE
    /\ MediaOff
    /\ titles = <<>>
    /\ MainOff
    /\ DownloadOff

\* backup_recursive for one listed page: current_number = get_next_number(parent)
\* and page_path = self._create_numbered_dir(base_path, page["subject"], current_number),
\* for the first two children of the parent
MakeDir ==
    /\ Len(titles) <= 1
    /\ \E t \in Titles :
          /\ titles' = Append(titles, t)
          /\ dirs' = Append(dirs, <<DirName(t, NextCounters(level_counters, DirParent)[DirParent])>>)
    /\ level_counters' = NextCounters(level_counters, DirParent)
    /\ numbers' = Append(numbers, <<DirParent, NextCounters(level_counters, DirParent)[DirParent]>>)
    /\ UNCHANGED <<wikivars, ops, pc, stack, count, log, calls, err, unwound, dlfail, prev,
                   mediavars, mainvars, dlvars>>

SpecDir == DirInit /\ [][MakeDir]_vars

\* -------------------------------------------------- download_file on its own
\* the names that can stand in the download folder
FileOld == <<"o", ".", "p">>
FileNew == <<"n", ".", "p">>
FilePartial == <<"n", ".", "p", ".", "c", "r", "d", "o", "w", "n", "l", "o", "a", "d">>
FileTmp == <<"n", ".", "t", "m", "p">>
FolderNames == {FileOld, FileNew, FilePartial, FileTmp}

\* name.endswith(suffix)
EndsWith(name, suffix) ==
    /\ Len(name) >= Len(suffix)
    /\ SubSeq(name, Len(name) - Len(suffix) + 1, Len(name)) = suffix

\* new_file.endswith('.crdownload') or new_file.endswith('.tmp')
IsPartial(name) ==
    EndsWith(name, <<".", "c", "r", "d", "o", "w", "n", "l", "o", "a", "d">>) \/ EndsWith(name, <<".", "t", "m", "p">>)

\* new_files = current_files - before_files
NewFilesAll(current_files, before) == current_files
NewFiles(current_files, before) == current_files \ before

\* for _ in range(10) has run out
TimedOutLate(n) == n >= PollLimit + 1
TimedOut(n) == n >= PollLimit

\* download_file is called; the folder holds any of the names
DownloadInit ==
    /\ npages = 0 /\ parentOf = <<>> /\ limit = Unlimited /\ failAt = 0
    /\ TreeOnly
    /\ prev = <<>>
    /\ Fresh
    /\ MediaOff
    /\ titles = <<>>
    /\ MainOff
    /\ dl_pc = "start"
    /\ folder \in SUBSET FolderNames
    /\ before_files = {}
    /\ polls = 0
    /\ observed = {}
    /\ dl_event = ""
    /\ returned = <<>>

\* download_file ends: return None, return target_path, or an exception
DlEnd(how, event, value) ==
    /\ dl_pc' = how
    /\ dl_event' = event
    /\ returned' = value

\* if self.driver is None: self.start()   (outside the try: its exception leaves)
DlStart ==
    /\ dl_pc = "start"
    /\ \/ dl_pc' = "before" /\ UNCHANGED <<dl_event, returned>>
       \/ DlEnd("raised", "attach_failed", <<>>)
    /\ UNCHANGED <<wikivars, runvars, mediavars, titles, mainvars, folder, before_files,
                   polls, observed>>

\* before_files = set(os.listdir(downloads_path))
DlBefore ==
    /\ dl_pc = "before"
    /\ \/ /\ before_files' = folder
          /\ dl_pc' = "get"
          /\ UNCHANGED <<dl_event, returned>>
       \/ DlEnd("returned", "list_failed", <<>>) /\ UNCHANGED before_files
    /\ UNCHANGED <<wikivars, runvars, mediavars, titles, mainvars, folder, polls, observed>>

\* self.driver.get(file_url)
DlGet ==
    /\ dl_pc = "get"
    /\ \/ dl_pc' = "poll" /\ UNCHANGED <<dl_event, returned>>
       \/ DlEnd("returned", "get_failed", <<>>)
    /\ UNCHANGED <<wikivars, runvars, mediavars, titles, mainvars, folder, before_files,
                   polls, observed>>

\* one pass of the polling loop over the listing current_files: nothing new or a
\* partial file picked (sleep and go on), or list(new_files)[0] moved and
\* returned, or an exception of the move
DlPass(current_files) ==
    /\ folder' = current_files
    /\ observed' = observed \cup {f \in current_files \ before_files : ~IsPartial(f)}
    /\ \/ /\ NewFiles(current_files, before_files) = {}
          /\ UNCHANGED <<dl_pc, dl_event, returned>>
       \/ \E new_file \in NewFiles(current_files, before_files) :
             IF IsPartial(new_file)
             THEN UNCHANGED <<dl_pc, dl_event, returned>>
             ELSE \/ DlEnd("returned", "moved", <<new_file>>)
                  \/ DlEnd("returned", "move_failed", <<>>)

\* for _ in range(10): current_files = set(os.listdir(downloads_path)) ...
DlPoll ==
    /\ dl_pc = "poll"
    /\ ~TimedOut(polls)
    /\ polls' = polls + 1
    /\ \/ \E current_files \in SUBSET FolderNames : DlPass(current_files)
       \/ DlEnd("returned", "list_failed", <<>>) /\ UNCHANGED <<folder, observed>>
    /\ UNCHANGED <<wikivars, runvars, mediavars, titles, mainvars, before_files>>

\* the loop ran out: logger.error(...); return None
DlTimeout ==
    /\ dl_pc = "poll"
    /\ TimedOut(polls)
    /\ DlEnd("returned", "timeout", <<>>)
    /\ UNCHANGED <<wikivars, runvars, mediavars, titles, mainvars, folder, before_files,
                   polls, observed>>

DownloadNext == DlStart \/ DlBefore \/ DlGet \/ DlPoll \/ DlTimeout

SpecDownload == DownloadInit /\ [][DownloadNext]_vars

\* download_file keeps running where it waits for nothing but its own code and the
\* local folder: the listing before the request, the polling loop and its end.
\* No fairness for start() and driver.get, which return when the browser answers.
SpecDownloadFair ==
    /\ SpecDownload
    /\ WF_vars(DlBefore)
    /\ WF_vars(DlPoll)
    /\ WF_vars(DlTimeout)

\* ------------------------------------------------------------------- main()
\* selected_projects = select_projects(): the codes of the selected projects
Selected == << <<"A">>, <<"B">>, <<"C">> >>

\* PageCounter.__init__: self.count = 0, self.level_counters = defaultdict(int)
NewCounter(old) == [count |-> 0, level_counters |-> [k \in Keys |-> 0]]

\* main() after an exception of the loop body: the except clause is outside the
\* for loop, so the loop is left with the projects that were still to come
AfterRaiseNextProject(ps) == [main_pc |-> "loop", projects |-> Tail(ps)]
AfterRaise(ps) == [main_pc |-> "failed", projects |-> ps]

\* how the loop body ended for the project in hand
Ending(how) ==
    [code |-> Head(projects), how |-> how, count |-> count, saved |-> Len(log), quota |-> limit]

\* datetime.now().strftime('%Y%m%d_%H%M%S'): minutes and whole seconds of the clock
StampSeconds(t) == Pad2(t \div 60) \o Pad2(t % 60)

\* _create_backup_dir: backup_dir = os.path.join(backups_dir, f"{timestamp}")
BackupDir(t) == <<"b", "a", "c", "k", "u", "p", "s", "/">> \o StampSeconds(t)

\* main() after select_projects() and load_config(): no manager exists yet
MainInit ==
    /\ main_pc = "loop"
    /\ \E n \in 0..Len(Selected) : projects = SubSeq(Selected, 1, n)
    /\ now = 0
    /\ backup_dirs = <<>>
    /\ finished = <<>>
    /\ limit \in {Unlimited} \cup 0..MaxQuota
    /\ npages = 0 /\ parentOf = <<>> /\ failAt = 0
    /\ TreeOnly
    /\ prev = <<>>
    /\ ops = 0 /\ pc = "none" /\ stack = <<>> /\ count = 0
    /\ level_counters = [k \in Keys |-> 0]
    /\ log = <<>> /\ dirs = <<>> /\ calls = <<>> /\ numbers = <<>>
    /\ err = "" /\ unwound = 0 /\ dlfail = FALSE
    /\ MediaOff
    /\ titles = <<>>
    /\ DownloadOff

\* for project in selected_projects: config.wiki_id = project['wiki']['id'] and
\* backup_manager = WikiBackupManager(config, project['code']): a new PageCounter
\* and the backup directory named by the clock
ManagerMade ==
    /\ npages' \in 0..MainPages
    /\ parentOf' \in Trees(npages')
    /\ failAt' \in 0..MainFailAt
    /\ backup_dirs' = Append(backup_dirs, [code |-> Head(projects), dir |-> BackupDir(now)])
    /\ main_pc' = "backup"
    /\ ops' = 0
    /\ pc' = "start"
    /\ stack' = <<>>
    /\ count' = NewCounter([count |-> count, level_counters |-> level_counters]).count
    /\ level_counters' =
          NewCounter([count |-> count, level_counters |-> level_counters]).level_counters
    /\ log' = <<>>
    /\ dirs' = <<>>
    /\ calls' = <<>>
    /\ numbers' = <<>>
    /\ err' = ""
    /\ unwound' = 0
    /\ dlfail' = FALSE
    /\ UNCHANGED <<limit, extra, prev, projects, now, finished, mediavars, titles, dlvars>>

\* WikiBackupManager(...) raised in _create_backup_dir (os.makedirs): the except
\* clause of main() logs it and main() ends
ManagerFailed ==
    /\ finished' = Append(finished, [code |-> Head(projects), how |-> "raised", count |-> 0,
                                      saved |-> 0, quota |-> limit])
    /\ main_pc' = AfterRaise(projects).main_pc
    /\ projects' = AfterRaise(projects).projects
    /\ UNCHANGED <<wikivars, runvars, now, backup_dirs, mediavars, titles, dlvars>>

NewManager ==
    /\ main_pc = "loop"
    /\ projects # <<>>
    /\ (ManagerMade \/ ManagerFailed)

\* backup_manager.backup() returned: the next project; the seconds of the clock
\* have advanced by d since this manager was made (0: still the same second)
ProjectDone ==
    /\ main_pc = "backup"
    /\ pc = "done"
    /\ projects' = Tail(projects)
    /\ finished' = Append(finished, Ending("done"))
    /\ \E d \in 0..MaxElapsed : now' = now + d
    /\ main_pc' = "loop"
    /\ pc' = "none"
    /\ UNCHANGED <<wikivars, ops, stack, count, level_counters, log, dirs, calls, numbers,
                   err, unwound, dlfail, prev, backup_dirs, mediavars, titles, dlvars>>

\* backup_manager.backup() raised: except Exception as e: logger.error(...)
ProjectFailed ==
    /\ main_pc = "backup"
    /\ pc = "failed"
    /\ finished' = Append(finished, Ending("raised"))
    /\ main_pc' = AfterRaise(projects).main_pc
    /\ projects' = AfterRaise(projects).projects
    /\ pc' = "none"
    /\ UNCHANGED <<wikivars, ops, stack, count, level_counters, log, dirs, calls, numbers,
                   err, unwound, dlfail, prev, now, backup_dirs, mediavars, titles,
                   dlvars>>

\* the for loop ran out of projects, or none was selected
MainEnd ==
    /\ main_pc = "loop"
    /\ projects = <<>>
    /\ main_pc' = "done"
    /\ UNCHANGED <<wikivars, runvars, projects, now, backup_dirs, finished, mediavars, titles,
                   dlvars>>

\* backup() of the current manager takes its steps
BackupStep ==
    /\ main_pc = "backup"
    /\ (Start \/ RootContent \/ RootDir \/ RootSave \/ Enter \/ Loop \/ Content \/ Save)

MainNext == NewManager \/ BackupStep \/ ProjectDone \/ ProjectFailed \/ MainEnd

SpecMain == MainInit /\ [][MainNext]_vars

\* ====================================================================== claims
\* ------------------------------------------------- what the claims speak of
RECURSIVE Preorder(_)
RECURSIVE PreorderAll(_)
\* depth-first pre-order of the forest of the listed pages, children in API order
PreorderAll(pages) ==
    IF pages = <<>> THEN <<>> ELSE Preorder(Head(pages)) \o PreorderAll(Tail(pages))

\* depth-first pre-order of the tree under page i
Preorder(i) == <<i>> \o PreorderAll(GetPages(PageId(i)))

RECURSIVE Under(_, _)
\* page i is page r or a descendant of it
Under(i, r) == i = r \/ (parentOf[i] # 0 /\ Under(parentOf[i], r))

HasRoot == npages >= 1
Reachable == {i \in 1..npages : Under(i, RootPage)}
Min(a, b) == IF a <= b THEN a ELSE b
AtLeastOne(q) == IF q >= 1 THEN q ELSE 1
LogPages == [j \in 1..Len(log) |-> log[j].page]
Ended == pc \in {"done", "failed"}

\* C1: with a finite quota Q >= 0 a run calls _save_page for at most Q + 1 pages
\* (Q pages besides the root), in every state of every run.
C1_QuotaBound == limit >= 0 => Len(log) <= limit + 1

\* C1 witness: a run that completed with pages refused by the quota
C1_Witness ==
    /\ pc = "done" /\ err = ""
    /\ limit >= 1 /\ count > limit
    /\ Len(log) = limit
    /\ Cardinality(Reachable) > Len(log)

\* C2: with the unlimited quota and no error, a completed run has materialized
\* every page reachable from the root exactly once.
C2_UnlimitedCoversAll ==
    (pc = "done" /\ err = "" /\ limit = Unlimited) =>
        /\ {log[j].page : j \in 1..Len(log)} = {PageId(i) : i \in Reachable}
        /\ \A j, k \in 1..Len(log) : log[j].page = log[k].page => j = k

\* C2 witness: an unlimited run over a tree three levels deep, with a top-level
\* page that is not the root
C2_Witness ==
    /\ pc = "done" /\ err = "" /\ limit = Unlimited
    /\ Len(log) >= 3
    /\ \E i \in 1..npages : parentOf[i] # 0 /\ parentOf[parentOf[i]] # 0
    /\ Cardinality(Reachable) < npages

\* the _save_page calls made for children numbered under key k, in order
LogOf(k) == SelectSeq(log, LAMBDA e : e.key = k)
\* the numbers handed out under key k, in order
NumbersOf(k) == SelectSeq(numbers, LAMBDA e : e[1] = k)
\* the pages the API lists under key k
ListedUnder(k) == IF k = RootKey THEN GetPages(NoParent) ELSE GetPages(k)

\* C3: in every state and for every parent key, the numbers handed out are
\* 1, 2, ..., k in this order, the j-th materialized child carries number j and
\* is the j-th page the API listed under that parent, whatever was numbered
\* under other parents in between.
C3_SiblingNumbers ==
    \A k \in {RootKey} \cup {PageId(i) : i \in 1..npages} :
        /\ \A j \in 1..Len(NumbersOf(k)) : NumbersOf(k)[j][2] = j
        /\ Len(NumbersOf(k)) = level_counters[k]
        /\ Len(LogOf(k)) \in {Len(NumbersOf(k)), Len(NumbersOf(k)) - 1}
        /\ \A j \in 1..Len(LogOf(k)) :
              /\ LogOf(k)[j].number = j
              /\ j <= Len(ListedUnder(k))
              /\ LogOf(k)[j].page = PageId(ListedUnder(k)[j])

\* C3 witness: a parent whose second child was numbered after a child of another
\* parent had been numbered in between
C3_Witness ==
    /\ pc = "done" /\ err = ""
    /\ \E a, b, c \in 1..Len(numbers) :
          /\ a < b /\ b < c
          /\ numbers[a][1] = numbers[c][1]
          /\ numbers[b][1] # numbers[a][1]
          /\ numbers[a][2] = 1
          /\ numbers[c][2] = 2

\* C4: with a finite quota Q the pages materialized are, in order, a prefix of the
\* depth-first pre-order of the tree under the root, never longer than max(Q, 1),
\* and an error-free completed run has materialized exactly the first
\* min(N, max(Q, 1)) of them.
C4_PreorderPrefix ==
    (limit >= 0 /\ HasRoot) =>
        /\ Len(log) <= Min(Len(Preorder(RootPage)), AtLeastOne(limit))
        /\ \A j \in 1..Len(log) : log[j].page = PageId(Preorder(RootPage)[j])
        /\ (pc = "done" /\ err = "") =>
              Len(log) = Min(Len(Preorder(RootPage)), AtLeastOne(limit))

\* C4 witness: root with two children and nothing else, quota 2: the root and the
\* first-listed child, nothing more
C4_Witness ==
    /\ pc = "done" /\ err = "" /\ limit = 2
    /\ npages = 3 /\ parentOf[2] = 1 /\ parentOf[3] = 1
    /\ LogPages = <<PageId(1), PageId(2)>>

\* C5: two runs on the same wiki with the same quota and the same API and write
\* behaviour, whatever their downloads returned, end the same way with the same
\* sequence of pages, sibling numbers and directories, and neither ends with an
\* error raised by a download.
C5_DownloadsDoNotSteer ==
    /\ err # "media"
    /\ (Ended /\ prev # <<>>) =>
          /\ prev[1].pc = pc
          /\ prev[1].err = err
          /\ prev[1].log = log
          /\ prev[1].numbers = numbers
          /\ prev[1].dirs = dirs

\* C5 witness: two completed runs over pages with media, one with every download
\* delivered and one with a failed download
C5_Witness ==
    /\ pc = "done" /\ prev # <<>>
    /\ prev[1].pc = "done"
    /\ prev[1].dlfail # dlfail
    /\ Len(log) >= 3

\* C7: once a fatal operation (an API call or a file write) has failed, the run
\* has ended by raising: every frame is gone, and the failed operation is the last
\* fatal operation attempted, so no page, sibling or subtree follows.
C7_FatalErrorsUnwind ==
    (failAt # 0 /\ ops >= failAt) =>
        /\ pc = "failed"
        /\ err \in {"api", "write"}
        /\ stack = <<>>
        /\ ops = failAt

\* C7 witness: a failure two frames deep with listed pages left unvisited
C7_Witness ==
    /\ pc = "failed" /\ err \in {"api", "write"}
    /\ unwound >= 2
    /\ limit = Unlimited
    /\ Len(log) < Cardinality(Reachable)

\* C8: with an empty top-level listing backup() ends with the no-root error right
\* after the listing: no content is fetched, no numbered directory is created, no
\* page is materialized, and the visited count and every sibling counter are 0.
C8_NoRoot ==
    GetPages(NoParent) = <<>> =>
        /\ calls \in {<<>>, << <<"get_pages", NoParent>> >>}
        /\ log = <<>>
        /\ dirs = <<>>
        /\ count = 0
        /\ \A k \in Keys : level_counters[k] = 0
        /\ (pc # "start" /\ ~Fails(1)) => (pc = "failed" /\ err = "noroot")

\* C8 witness: the no-root error was raised
C8_Witness == pc = "failed" /\ err = "noroot" /\ GetPages(NoParent) = <<>> /\ ops = 1

\* C6: whatever goes wrong while _process_attachments handles one descriptor is
\* replaced by one failure line: the function returns, with one line per
\* descriptor of the list.
C6_AttachErrorsContained ==
    media_pc = "done" =>
        /\ ~media_out[1].raised
        /\ Len(media_out[1].links) = Len(media_in.files)

\* the position after the digits that start at a
RunEnd(s, a) ==
    CHOOSE e \in a..(Len(s) + 1) :
        /\ \A k \in a..(e - 1) : s[k] \in Digits
        /\ e = Len(s) + 1 \/ s[e] \notin Digits

\* where the container id and the file id end, for a link target starting at j
WikiEnd(s, j) == RunEnd(s, j + Len(LitWikis))
FileEnd(s, j) == RunEnd(s, WikiEnd(s, j) + Len(LitFiles))

\* s holds ](/wikis/<digits>/files/<digits>) from j on
TargetAt(s, j) ==
    /\ LitAt(s, j, LitWikis)
    /\ WikiEnd(s, j) > j + Len(LitWikis)
    /\ LitAt(s, WikiEnd(s, j), LitFiles)
    /\ FileEnd(s, j) > WikiEnd(s, j) + Len(LitFiles)
    /\ LitAt(s, FileEnd(s, j), <<")">>)

\* the places <<i, j>> where s holds ![alt](/wikis/<digits>/files/<digits>),
\* the markup starting at i and its alt text ending before j
Shapes(s) ==
    {q \in {i \in 1..Len(s) : LitAt(s, i, LitOpen)} \X {j \in 1..Len(s) : TargetAt(s, j)} :
        q[2] >= q[1] + 2}

\* the body holds the markup somewhere, whatever its alt text
HasShape(s) == Shapes(s) # {}

\* an occurrence the rewriter handles: its alt text holds no line break
Occurrences(s) == {q \in Shapes(s) : \A k \in (q[1] + 2)..(q[2] - 1) : s[k] # "\n"}

\* the occurrences from position pos on
OccFrom(s, pos) == {q \in Occurrences(s) : q[1] >= pos}

\* the next occurrence from pos, left to right: the leftmost start, and for it
\* the shortest alt text
NextOcc(s, pos) ==
    CHOOSE q \in OccFrom(s, pos) :
        \A r \in OccFrom(s, pos) : q[1] < r[1] \/ (q[1] = r[1] /\ q[2] <= r[2])

\* the position after occurrence q
OccStop(s, q) == FileEnd(s, q[2]) + 1

RECURSIVE OccList(_, _)
\* the occurrences handled, in order
OccList(s, pos) ==
    IF OccFrom(s, pos) = {} THEN <<>>
    ELSE <<NextOcc(s, pos)>> \o OccList(s, OccStop(s, NextOcc(s, pos)))

OccAlt(s, q) == SubSeq(s, q[1] + 2, q[2] - 1)
OccWiki(s, q) == SubSeq(s, q[2] + Len(LitWikis), WikiEnd(s, q[2]) - 1)
OccFile(s, q) == SubSeq(s, WikiEnd(s, q[2]) + Len(LitFiles), FileEnd(s, q[2]) - 1)

\* what the k-th occurrence q is to be replaced by, when the outcomes in linked
\* are the ones that give a link
ExpectedFor(s, q, k, linked) ==
    <<"!", "[">> \o OccAlt(s, q) \o <<"]">> \o
    (IF media_in.outs[k].dl \in linked
     THEN <<"(", "i", "m", "a", "g", "e", "s", "/">> \o media_out[1].downloads[k].file_name \o <<")">>
     ELSE MarkerTail(IF media_in.outs[k].dl \in {"none", "missing"}
                     THEN MarkDownloadFailed ELSE MarkProcessError,
                     OccWiki(s, q), OccFile(s, q)))

RECURSIVE ExpectedFrom(_, _, _, _, _)
\* the body from pos on with the occurrences occ[k..] replaced
ExpectedFrom(s, occ, k, pos, linked) ==
    IF k > Len(occ) THEN SubSeq(s, pos, Len(s))
    ELSE SubSeq(s, pos, occ[k][1] - 1) \o ExpectedFor(s, occ[k], k, linked)
         \o ExpectedFrom(s, occ, k + 1, OccStop(s, occ[k]), linked)

\* the rewriter handled every occurrence once, left to right, with one inline
\* download each, and left the rest of the body as it was
RewrittenAsExpected(linked) ==
    LET s == media_in.body
        occ == OccList(s, 1)
        r == media_out[1]
    IN  /\ ~r.raised
        /\ Len(r.downloads) = Len(occ)
        /\ \A k \in 1..Len(occ) :
              /\ r.downloads[k].is_inline
              /\ r.downloads[k].file_id = OccFile(s, occ[k])
        /\ r.content = ExpectedFrom(s, occ, 1, 1, linked)

\* C9 as stated: an occurrence becomes an images/ link whenever its download
\* yields an existing file, and a failure marker otherwise.
C9_LinkWheneverDownloaded ==
    media_pc \in {"done", "again"} => RewrittenAsExpected({"file", "nomove"})

\* C9: every occurrence is handled exactly once, left to right, with one
\* inline-mode download each; it becomes an images/ link to the generated name if
\* the download yields an existing file and moving it into images/ succeeds, and
\* otherwise (no file, an exception of the download or of the move) a failure
\* marker carrying alt text, container id and file id; later occurrences are
\* still handled and the text outside the occurrences is unchanged.
C9_RewriteEveryOccurrence ==
    media_pc \in {"done", "again"} => RewrittenAsExpected({"file"})

\* C9 witness: the same file referenced twice, the first download raising, the
\* second delivered
C9_Witness ==
    /\ media_pc = "done"
    /\ Len(media_out[1].downloads) = 2
    /\ media_out[1].downloads[1].file_id = media_out[1].downloads[2].file_id
    /\ media_in.outs[1].dl = "raise"
    /\ media_in.outs[2].dl = "file"

\* C10: a body without the markup comes back unchanged with no download made,
\* and so does the result when it is rewritten again.
C10_NoMarkupUnchanged ==
    (media_pc \in {"done", "again"} /\ ~HasShape(media_in.body)) =>
        /\ media_out[1].content = media_in.body
        /\ media_out[1].downloads = <<>>
        /\ media_pc = "again" =>
              /\ media_out[2].content = media_out[1].content
              /\ media_out[2].downloads = <<>>

\* C10 witness: a body with other image syntax and an incomplete markup, rewritten twice
C10_Witness ==
    /\ media_pc = "again"
    /\ ~HasShape(media_in.body)
    /\ media_in.body = ImgOther \o ImgNoDigits

\* ---------------------------------------------------------------------- C11
\* where the attachments heading stands in content c
HeadingAt(c) == {i \in 1..Len(c) : LitAt(c, i, HeadingLine)}

RECURSIVE SplitLines(_)
\* the lines of t, each up to and without its line break
SplitLines(t) ==
    IF t = <<>> THEN <<>>
    ELSE IF "\n" \notin {t[i] : i \in 1..Len(t)} THEN <<t>>
    ELSE <<SubSeq(t, 1, Least({i \in 1..Len(t) : t[i] = "\n"}) - 1)>>
         \o SplitLines(SubSeq(t, Least({i \in 1..Len(t) : t[i] = "\n"}) + 1, Len(t)))

\* the lines that follow the heading line
SectionLines(c) == SplitLines(SubSeq(c, Least(HeadingAt(c)) + Len(HeadingLine) + 1, Len(c)))

\* a list line for the descriptor named name: "- name ..." or "- [name](...) ..."
LineNames(line, name) ==
    /\ LitAt(line, 1, <<"-", " ">>)
    /\ \/ LitAt(line, 3, name \o <<" ", "(">>)
       \/ LitAt(line, 3, <<"[">> \o name \o <<"]", "(">>)

\* C11: the content _save_page writes holds the attachments heading exactly when
\* the descriptor list is not empty, and then the heading is followed by exactly
\* one line per descriptor, in the descriptors' order, whatever the downloads did.
C11_AttachmentSection ==
    (media_pc = "done" /\ ~media_out[1].raised) =>
        /\ (HeadingAt(media_out[1].content) # {}) = (media_in.files # <<>>)
        /\ Cardinality(HeadingAt(media_out[1].content)) <= 1
        /\ media_in.files # <<>> =>
              /\ Len(SectionLines(media_out[1].content)) = Len(media_in.files)
              /\ \A k \in 1..Len(media_in.files) :
                    LineNames(SectionLines(media_out[1].content)[k], media_in.files[k]["name"])

\* C11 witness: two different descriptors, the first download failed and the
\* second delivered, on a page with an inline image
C11_Witness ==
    /\ media_pc = "done" /\ ~media_out[1].raised
    /\ Len(media_in.files) = 2
    /\ media_in.files[1] # media_in.files[2]
    /\ Len(media_in.outs) = 3
    /\ media_in.outs[2].dl = "none"
    /\ media_in.outs[3].dl = "file"

\* ---------------------------------------------------------------------- C12
\* C12: when backup() completes without error, the total it reports
\* (page_counter.count) is the number of pages it materialized.
C12_ReportedTotal == (pc = "done" /\ err = "") => count = Len(log)

\* ---------------------------------------------------------------------- C13
\* the pages the top-level listing returns
TopLevel == {i \in 1..npages : parentOf[i] = 0}

\* the first page of the top-level listing
FirstListed == CHOOSE i \in TopLevel : \A j \in TopLevel : i <= j

\* C13: when a top-level page exists, the first page of the top-level listing is
\* materialized first, for every quota (Q = 0 included): with sibling number 1 of
\* key 'root', in the directory '01 P_1' made from the project code 'P/1', for
\* exactly one increment of the visited count; no other top-level page is ever
\* materialized and key 'root' hands out no other number.
C13_RootAlways ==
    HasRoot =>
        /\ pc \in {"enter", "loop", "content", "save", "done"} => log # <<>>
        /\ log # <<>> =>
              log[1] = [page |-> PageId(FirstListed), number |-> 1, key |-> RootKey,
                        path |-> << <<"0", "1", " ", "P", "_", "1">> >>]
        /\ \A j \in 2..Len(log) : PageIndex(log[j].page) \notin TopLevel
        /\ NumbersOf(RootKey) \in {<<>>, << <<RootKey, 1>> >>}
        /\ level_counters[RootKey] <= 1
        /\ (pc = "enter" /\ Len(log) = 1) => (count = 1 /\ level_counters[RootKey] = 1)

\* C13 witness: quota 0 and two top-level pages, the first with a child: the run
\* completed with the root alone
C13_Witness ==
    /\ pc = "done" /\ err = ""
    /\ limit = 0
    /\ Cardinality(TopLevel) >= 2
    /\ \E i \in 1..npages : parentOf[i] = FirstListed
    /\ Len(log) = 1
    /\ count = 1

\* ---------------------------------------------------------------------- C14
\* C14: the backup directories of the runs one main() invocation starts are
\* pairwise different.
C14_FreshBackupDir ==
    \A i, j \in 1..Len(backup_dirs) : i # j => backup_dirs[i].dir # backup_dirs[j].dir

\* ---------------------------------------------------------------------- C15
\* C15: the local names generated for the inline images of one body are pairwise
\* different, also for occurrences with the same alt text or the same file id.
C15_DistinctMediaNames ==
    media_pc = "done" =>
        \A i, j \in 1..Len(media_out[1].names) :
            i # j => media_out[1].names[i] # media_out[1].names[j]

\* ---------------------------------------------------------------------- C16
\* the characters a directory name may keep
KeptChars == Alnum \cup {" ", "-", "_"}

\* the decimal digits of n < 1000, at least two of them
TwoDigits(n) ==
    LET d(k) == <<"0", "1", "2", "3", "4", "5", "6", "7", "8", "9">>[k + 1]
    IN  IF n < 100 THEN <<d(n \div 10), d(n % 10)>>
        ELSE <<d(n \div 100), d((n \div 10) % 10), d(n % 10)>>

\* name is number n padded, a space, and title t with every character outside
\* KeptChars replaced by "_"
NamedFor(name, t, n) ==
    /\ Len(name) = Len(TwoDigits(n)) + 1 + Len(t)
    /\ SubSeq(name, 1, Len(TwoDigits(n))) = TwoDigits(n)
    /\ name[Len(TwoDigits(n)) + 1] = " "
    /\ \A i \in 1..Len(t) :
          name[Len(TwoDigits(n)) + 1 + i] = IF t[i] \in KeptChars THEN t[i] ELSE "_"

\* C16: every directory name built is the zero-padded number, a space and the
\* sanitized title of the same length; it holds no path separator and no
\* character outside alphanumeric / space / '-' / '_'; and the two siblings'
\* directories differ, also when their sanitized titles are equal.
C16_NumberedDirNames ==
    /\ \A k \in 1..Len(dirs) :
          /\ NamedFor(dirs[k][1], titles[k], numbers[k][2])
          /\ \A i \in 1..Len(dirs[k][1]) : dirs[k][1][i] \in KeptChars
          /\ \A i \in 1..Len(dirs[k][1]) : dirs[k][1][i] \notin {"/", "\\"}
    /\ Len(dirs) = 2 => dirs[1] # dirs[2]

\* C16 witness: two siblings numbered 99 and 100 whose different titles, each with
\* a separator, sanitize to the same text
C16_Witness ==
    /\ Len(dirs) = 2
    /\ titles[1] = <<"a", "/">>
    /\ titles[2] = <<"a", "\\">>
    /\ numbers[2][2] = 100

\* ---------------------------------------------------------------------- C17
\* the getPageContent calls made so far
ContentCalls == SelectSeq(calls, LAMBDA c : c[1] = "get_page_content")

\* the listChildren calls made so far: get_pages with a parent
ChildListings == SelectSeq(calls, LAMBDA c : c[1] = "get_pages" /\ c[2] # NoParent)

\* a step of the run in hand makes no API call
NoCall == calls' = calls \/ pc' = "start"

\* C17 as stated: from the moment the visited count has reached a finite quota
\* Q >= 1 the run makes no further API call of any kind.
C17_NoCallOnceReached == [][(limit >= 1 /\ count >= limit) => NoCall]_vars

\* C17: with a finite quota Q >= 1, once the visited count has reached Q the only
\* API call still made is the content fetch of the page whose increment() brought
\* the count to Q; after that fetch, and once the count has passed Q, no API call
\* of any kind follows.  A run issues at most Q getPageContent calls and at most
\* Q - 1 listChildren calls after the top-level listing.
C17_CallsBoundedByQuota ==
    /\ [](limit >= 1 => (Len(ContentCalls) <= limit /\ Len(ChildListings) <= limit - 1))
    /\ [][(limit >= 1 /\ count >= limit /\ ~(pc = "content" /\ count = limit)) => NoCall]_vars
    /\ [][(limit >= 1 /\ count >= limit /\ pc = "content") =>
             calls' = Append(calls, <<"get_page_content", PageId(Top.pages[Top.idx])>>)]_vars

\* C17 witness: a completed run with quota 2 that made two content fetches and one
\* child listing and left listed pages unvisited
C17_Witness ==
    /\ pc = "done" /\ err = ""
    /\ limit = 2
    /\ Len(ContentCalls) = 2
    /\ Len(ChildListings) = 1
    /\ Len(log) < Cardinality(Reachable)

\* what the callers of download_file get from a finished call: "none" for None,
\* "file" for a path, "raise" for an exception
CallerSees == IF dl_pc = "raised" THEN "raise" ELSE IF returned = <<>> THEN "none" ELSE "file"

\* download_file has ended
DlOver == dl_pc \in {"returned", "raised"}

\* the caller of a download that gave None goes on: replace_image returns the
\* failure marker and the attachment loop appends the failure line
NoneIsPerMedia ==
    /\ ReplaceImage(Search(ImgA, 1), [dl |-> CallerSees, tick |-> 1], FileNew).raised = FALSE
    /\ ReplaceImage(Search(ImgA, 1), [dl |-> CallerSees, tick |-> 1], FileNew).text
           = ReplaceText(Search(ImgA, 1), [dl |-> "none", tick |-> 1], FileNew)
    /\ AttachOne(FileDoc, [dl |-> CallerSees, tick |-> 1], 1).kind = "failed"

\* C18 (state part): the polling loop of download_file lists the download folder
\* at most ten times; a call in which those listings showed no new completed
\* file, or whose navigation or move failed, or whose ten polls ran out, ends
\* with None and not with an exception (the only exception that leaves is the
\* one of start(), before any listing); and a None makes the caller write a
\* failure marker or line and go on.
C18_Bounded ==
    /\ polls <= PollLimit
    /\ (DlOver /\ dl_event \in {"timeout", "get_failed", "move_failed", "list_failed"})
          => (dl_pc = "returned" /\ returned = <<>>)
    /\ (dl_pc = "returned" /\ observed = {}) => returned = <<>>
    /\ dl_event = "timeout" => (polls = PollLimit /\ dl_pc = "returned")
    /\ dl_pc = "raised" => (dl_event = "attach_failed" /\ polls = 0 /\ before_files = {})
    /\ (dl_pc = "returned" /\ returned = <<>>) => NoneIsPerMedia

\* the navigation has returned and the polling loop runs
Polling == dl_pc = "poll"

\* C18: download_file polls the download folder at most ten times per request and
\* then ends: once the navigation has returned, the call ends; it returns None,
\* never raising, when no completed new file was observed within those polls or
\* when navigating or moving fails, and that None is a per-media failure after
\* which the caller goes on.
C18_PollsThenReturns == []C18_Bounded /\ (Polling ~> DlOver)

\* C18 witness: ten polls went by without any new completed file and the call
\* returned None on the timeout
C18_Witness ==
    /\ dl_pc = "returned"
    /\ dl_event = "timeout"
    /\ polls = PollLimit
    /\ observed = {}
    /\ returned = <<>>

\* C20: whenever download_file returns a path, the file it moved was not in the
\* download folder at the listing taken before the request, and its name ends
\* neither in .crdownload nor in .tmp.
C20_ReturnedIsNewAndWhole ==
    (dl_pc = "returned" /\ returned # <<>>) =>
        /\ returned[1] \notin before_files
        /\ ~EndsWith(returned[1], <<".", "c", "r", "d", "o", "w", "n", "l", "o", "a", "d">>)
        /\ ~EndsWith(returned[1], <<".", "t", "m", "p">>)
        /\ returned[1] \in folder

\* C20 witness: a path was returned while an older file and a partial download
\* stood in the folder beside it
C20_Witness ==
    /\ dl_pc = "returned"
    /\ returned = <<FileNew>>
    /\ FileOld \in before_files
    /\ {FileOld, FilePartial, FileTmp} \subseteq folder

\* page i appears in its own listing or in the listing of one of its descendants
ListingLoops == \E e \in extra : Under(e[1], e[2])

\* C19 (state part): a run that has ended has left every frame of
\* backup_recursive, and the nesting of the frames stays under the cap and, with
\* a finite quota, within the quota
C19_Nesting ==
    /\ Ended => (stack = <<>> /\ (pc = "done" <=> err = ""))
    /\ Len(stack) < MaxDepth
    /\ (limit >= 0 /\ npages >= 1) => Len(stack) <= AtLeastOne(limit)

\* the pattern of outcomes is complete: every API request and every download
\* backup() makes has an outcome, a result or a failure, so that backup() is
\* never left inside one request for ever
Answered == []<>~Waiting

\* C19: for every finite page tree, every quota and every pattern of download
\* outcomes and API or write failures, backup() ends, completed or with a fatal
\* error raised, with no frame of backup_recursive left; with a finite quota it
\* ends also when the child listing never runs out, the nesting of
\* backup_recursive staying within the quota.
C19_Terminates == (Answered => <>Ended) /\ []C19_Nesting

\* C19 witness: a run with a finite quota on a wiki whose listing loops has
\* completed after materializing the same page more than once
C19_Witness ==
    /\ pc = "done" /\ err = ""
    /\ limit >= 2
    /\ ListingLoops
    /\ \E j, k \in 1..Len(log) : j < k /\ log[j].page = log[k].page
    /\ count > limit

\* ---------------------------------------------------------------------- C21
\* the codes of the entries of a sequence of records
Codes(entries) == [j \in 1..Len(entries) |-> entries[j].code]

\* the place in the selection of the project in hand or, between two projects,
\* of the next one
Place == IF main_pc = "failed" THEN Len(finished) ELSE Len(finished) + 1

\* C21 (state part): the projects begun so far are the first ones of the
\* selection, in its order; a project is begun only after every earlier one has
\* completed; the manager of a project starts backup() with visited count 0 and
\* every sibling counter 0, whatever the earlier projects counted; a project whose
\* constructor or backup() raised is the last one begun, main() has then ended
\* in its except clause, and the projects selected after it were not begun.
C21_PerProject ==
    /\ Codes(finished) = SubSeq(Codes([j \in 1..Len(Selected) |-> [code |-> Selected[j]]]),
                                1, Len(finished))
    /\ Codes(backup_dirs) = SubSeq(Codes([j \in 1..Len(Selected) |-> [code |-> Selected[j]]]),
                                   1, Len(backup_dirs))
    /\ \E n \in 0..Len(Selected) : projects = SubSeq(Selected, Place, n)
    /\ Len(backup_dirs) <= Len(finished) + 1
    /\ main_pc = "backup" => (Len(backup_dirs) = Len(finished) + 1
                               /\ backup_dirs[Len(backup_dirs)].code = Head(projects))
    /\ (main_pc = "backup" /\ pc = "start") =>
           (count = 0 /\ \A k \in Keys : level_counters[k] = 0)
    /\ main_pc = "backup" => (count >= Len(log) /\ (limit >= 0 => Len(log) <= AtLeastOne(limit)))
    /\ \A j \in 1..Len(finished) :
           /\ finished[j].how = "raised" <=> (j = Len(finished) /\ main_pc = "failed")
           /\ finished[j].how = "done" =>
                  (finished[j].saved >= 1 /\ finished[j].count >= finished[j].saved)
    /\ main_pc = "failed" =>
           (finished # <<>> /\ Len(backup_dirs) <= Len(finished) /\ pc = "none")

\* C21: main() backs the selected projects up one after another in selection
\* order, each with its own WikiBackupManager whose visited count and sibling
\* counters start at 0, so that the quota applies to each project by itself; when
\* the backup of a project raises, main() catches the error, takes no further
\* step, and no later selected project is backed up.
C21_MainPerProject ==
    /\ []C21_PerProject
    /\ [][main_pc # "failed"]_vars
    /\ [][(main_pc = "loop" /\ main_pc' = "backup") =>
             (count' = 0 /\ (\A k \in Keys : level_counters'[k] = 0)
              /\ log' = <<>> /\ projects' = projects)]_vars

\* C21 witness: with quota 2 the first project completed with two pages
\* materialized, the second one materialized a page of its own and then raised,
\* main() ended in its except clause, and the third selected project was not begun
C21_Witness ==
    /\ main_pc = "failed"
    /\ limit = 2
    /\ Len(finished) = 2
    /\ finished[1].how = "done" /\ finished[1].saved = 2 /\ finished[1].count >= 2
    /\ finished[2].how = "raised" /\ finished[2].saved >= 1
    /\ projects = <<Selected[2], Selected[3]>>
    /\ Len(backup_dirs) = 2

====
